---- MODULE Spec2Model ----
(***************************************************************************)
(* Structural-arbitrage pipeline of kalshi_qete: the ExecutionManager      *)
(* (engine/execution.py), the EventClassifier (engine/classifier.py), the  *)
(* StructuralArbScanner and its strategy (strategies/structural_arb.py),   *)
(* and the price extraction of utils/orderbook.py.                         *)
(*                                                                         *)
(* Money is in integer cents, confidences in integer percent, and time in  *)
(* poll intervals (execution) or cache ticks (classifier).  An optional    *)
(* value (Python's None) is a sequence of length 0 or 1.                   *)
(***************************************************************************)
EXTENDS Integers, Sequences, FiniteSets, TLC

VARIABLES
    paper_trade,        \* ExecutionManager.paper_trade
    kill_switch,        \* ExecutionManager._kill_switch
    execution_history,  \* ExecutionManager.execution_history
    pc,                 \* the execute_basket call: idle (not made), gathering, returned
    signals,            \* signal_group.signals of the call in progress
    result,             \* the BasketResult of the call in progress / last returned
    tasks,              \* the leg tasks handed to asyncio.gather, one per signal
    create_order_calls, \* adapter.create_order calls received by the exchange, per leg
    now,                \* datetime.now(), in cache ticks
    cache,              \* EventClassifier._cache: ticker -> (classification, timestamp)
    classifier_call,    \* the last call into the classifier: arguments, fetches, result
    complete_events,    \* StructuralArbScanner.complete_events, in insertion order
    excluded_events,    \* StructuralArbScanner.excluded_events: ticker -> reason
    last_analyses,      \* StructuralArbScanner.last_analyses
    strategy_call,      \* the last call into the strategy: its market list and its output
    call,               \* a call of one function of the pipeline: arguments and return value
    exchange            \* what the exchange lists and quotes: event -> markets and books

execVars == <<paper_trade, kill_switch, execution_history, pc, signals, result,
              tasks, create_order_calls>>

classifierVars == <<now, cache, classifier_call>>

scannerVars == <<complete_events, excluded_events, last_analyses, strategy_call>>

scanVars == <<classifierVars, scannerVars>>

envVars == <<call, exchange>>

vars == <<execVars, scanVars, envVars>>

\* ------------------------------------------------------------------ bounds

\* Longest signal group handed to execute_basket.
MaxLegs == 3

\* order_timeout, counted in 0.5 s poll intervals.
OrderTimeout == 2

\* Last instant of the classifier's clock, in cache ticks.
MaxTime == 2

\* cache_ttl, in cache ticks.
CacheTtl == 2

\* Most price levels on one side of an orderbook.
MaxLevels == 2

\* Most outcome markets get_markets_by_event returns for one event.
MaxMarkets == 3

\* ------------------------------------------------------- program constants

\* ExecutionManager(max_position_per_market=100)
max_position_per_market == 100

\* ExecutionManager(max_basket_cost=100.0), in dollars
max_basket_cost == 100

\* filter_mutually_exclusive(min_confidence=0.8), in percent
default_min_confidence == 80

\* StructuralArbStrategy(buy_threshold=98.0), in cents
buy_threshold == 98

\* StructuralArbStrategy(sell_threshold=102.0), in cents
sell_threshold == 102

\* StructuralArbStrategy(min_markets=2)
min_markets == 2

\* StructuralArbStrategy(max_markets=50)
max_markets == 50

\* StructuralArbStrategy(default_size=10)
default_size == 10

\* StructuralArbStrategy(require_two_sided=True)
require_two_sided == TRUE

\* StructuralArbScanner(require_mutually_exclusive=True)
require_mutually_exclusive == TRUE

\* get_filtered_signal_groups(min_coverage=0.9), in percent
default_min_coverage == 90

\* get_filtered_signal_groups(min_contracts=10000)
default_min_contracts == 10000

\* ------------------------------------------------------------ input universe

None == <<>>

Some(x) == <<x>>

\* The legs a signal group is built from: a Buy leg on one market, a Sell leg on
\* another, each at the cap of max_position_per_market or one contract above it.
\* Two Buy legs cost exactly max_basket_cost, three exceed it.
Sizes == {100, 101}

SignalUniverse ==
    {[ticker |-> "KXA", side |-> "buy", price |-> 50, size |-> z] : z \in Sizes}
      \cup {[ticker |-> "KXB", side |-> "sell", price |-> 60, size |-> z] : z \in Sizes}

SignalGroups == UNION {[1..n -> SignalUniverse] : n \in 0..MaxLegs}

\* avg_price reported by the exchange minus the limit price.
Slips == {0, 1}

\* Messages of the exceptions the adapter can raise.
SubmitErrors == {"create_order failed"}

\* ------------------------------------------------------------------ helpers

RECURSIVE SumSeq(_)
SumSeq(s) == IF s = <<>> THEN 0 ELSE Head(s) + SumSeq(Tail(s))

Range(s) == {s[i] : i \in DOMAIN s}

\* ------------------------------------------------------------ OrderResult

\* OrderResult(...) as _execute_single_order constructs it.
NewOrderResult(signal) ==
    [ticker |-> signal.ticker, side |-> signal.side,
     expected_price |-> signal.price, expected_size |-> signal.size,
     order_id |-> None, status |-> "pending", fill_price |-> None,
     fill_size |-> 0, slippage |-> 0, error_message |-> None]

\* BasketResult.orders_filled
orders_filled(r) ==
    Cardinality({i \in DOMAIN r.order_results : r.order_results[i].status = "filled"})

\* BasketResult.orders_total
orders_total(r) == Len(r.order_results)

\* BasketResult.total_slippage: `sum(o.slippage for o in order_results if o.fill_price)`
total_slippage(r) ==
    LET priced == SelectSeq(r.order_results, LAMBDA o :
                      o.fill_price # None /\ o.fill_price[1] # 0)
    IN SumSeq([i \in DOMAIN priced |-> priced[i].slippage])

\* BasketResult.fill_rate, as the pair <<numerator, denominator>>; 0.0 is <<0, 1>>.
fill_rate(r) ==
    IF orders_total(r) = 0 THEN <<0, 1>> ELSE <<orders_filled(r), orders_total(r)>>

\* ------------------------------------------------------------- validation

\* total_cost of validate_signal_group, times 100 (price*size summed over Buy legs).
BuyNotionalCents(sg) ==
    SumSeq([i \in DOMAIN sg |->
              IF sg[i].side = "buy" THEN sg[i].price * sg[i].size ELSE 0])

\* validate_signal_group without its position-limit loop.
validate_signal_group_NoPositionLimit(sg) ==
    IF kill_switch THEN Some("Kill switch is active")
    ELSE IF sg = <<>> THEN Some("Signal group has no signals")
    ELSE IF BuyNotionalCents(sg) > max_basket_cost * 100
         THEN Some("Basket cost exceeds max")
    ELSE None

\* validate_signal_group: the error message, or None when the group is valid.
validate_signal_group(sg) ==
    IF kill_switch THEN Some("Kill switch is active")
    ELSE IF sg = <<>> THEN Some("Signal group has no signals")
    ELSE IF \E i \in DOMAIN sg : sg[i].size > max_position_per_market
         THEN Some("Signal exceeds max position")
    ELSE IF BuyNotionalCents(sg) > max_basket_cost * 100
         THEN Some("Basket cost exceeds max")
    ELSE None

\* ------------------------------------------------------------------- Init

NoResult == [status |-> "pending", order_results |-> <<>>]

ExecInit ==
    /\ paper_trade \in BOOLEAN
    /\ kill_switch = FALSE
    /\ execution_history = <<>>
    /\ pc = "idle"
    /\ signals = <<>>
    /\ result = NoResult
    /\ tasks = <<>>
    /\ create_order_calls = <<>>

\* ---------------------------------------------------------------- actions

\* ExecutionManager.kill
kill ==
    /\ kill_switch' = TRUE
    /\ UNCHANGED <<paper_trade, execution_history, pc, signals, result, tasks,
                   create_order_calls>>
    /\ UNCHANGED <<scanVars, envVars>>

\* ExecutionManager.reset_kill_switch
reset_kill_switch ==
    /\ kill_switch' = FALSE
    /\ UNCHANGED <<paper_trade, execution_history, pc, signals, result, tasks,
                   create_order_calls>>
    /\ UNCHANGED <<scanVars, envVars>>

\* A leg coroutine of the gather, before the event loop first runs it.  elapsed is
\* _wait_for_fill's datetime.now() - start_time, a local that ends with the wait;
\* trail lists every value result.status has been given, the initial one included.
NewTask(signal) ==
    [pc |-> "ready", result |-> NewOrderResult(signal), elapsed |-> 0,
     trail |-> <<"pending">>]

\* result.status = status
SetStatus(t, status) ==
    [t EXCEPT !.result.status = status, !.trail = Append(@, status)]

\* A leg that does not look at the kill switch.
KillSwitchIgnoredByLeg == FALSE

\* asyncio.gather schedules the leg tasks in the order of the signals and the
\* event loop first runs them in that order: leg i starts once every earlier leg
\* has started.
NextToStart(i) ==
    /\ pc = "gathering"
    /\ tasks[i].pc = "ready"
    /\ \A j \in 1..(i - 1) : tasks[j].pc # "ready"

\* _execute_single_order, line 295: the kill switch as the leg sees it on entry.
KillSwitchSeenByLeg == kill_switch

\* A short-circuit that reports the leg Failed.
CancelledOutcomeAsFailed(t) ==
    [SetStatus(t, "failed") EXCEPT
        !.pc = "done",
        !.result.error_message = Some("Kill switch active")]

\* _execute_single_order, lines 295-298: the leg short-circuits.
CancelledOutcome(t) ==
    [SetStatus(t, "cancelled") EXCEPT
        !.pc = "done",
        !.result.error_message = Some("Kill switch active")]

\* A paper fill one cent away from the expected price.
PaperFillOutcomeWithSlippage(t) ==
    [SetStatus(t, "filled") EXCEPT
        !.pc = "done",
        !.result.order_id = Some("PAPER"),
        !.result.fill_price = Some(t.result.expected_price + 1),
        !.result.fill_size = t.result.expected_size,
        !.result.slippage = 1]

\* _execute_single_order, lines 306-311: the simulated fill of paper mode.
PaperFillOutcome(t) ==
    [SetStatus(t, "filled") EXCEPT
        !.pc = "done",
        !.result.order_id = Some("PAPER"),
        !.result.fill_price = Some(t.result.expected_price),
        !.result.fill_size = t.result.expected_size,
        !.result.slippage = 0]

\* An except block that marks the leg Failed and drops the exception's text.
ExceptionOutcomeNoMessage(t, msg) ==
    [SetStatus(t, "failed") EXCEPT !.pc = "done"]

\* _execute_single_order, lines 349-352: an exception inside the try block.
ExceptionOutcome(t, msg) ==
    [SetStatus(t, "failed") EXCEPT
        !.pc = "done",
        !.result.error_message = Some(msg)]

\* _execute_single_order, lines 339-344: _wait_for_fill returned the order status.
FilledOutcome(t, slip) ==
    [SetStatus(t, "filled") EXCEPT
        !.pc = "done",
        !.elapsed = 0,
        !.result.fill_price = Some(t.result.expected_price + slip),
        !.result.fill_size = t.result.expected_size,
        !.result.slippage = slip]

\* An unfilled order is sent again: the leg goes back to its start.
NoFillOutcomeRetry(t) ==
    [t EXCEPT !.pc = "ready", !.elapsed = 0]

\* _execute_single_order, lines 345-347: _wait_for_fill returned None.
NoFillOutcome(t) ==
    [SetStatus(t, "failed") EXCEPT
        !.pc = "done",
        !.elapsed = 0,
        !.result.error_message = Some("Order did not fill within timeout")]

\* A polling loop without a deadline.
TimedOutNever(elapsed) == FALSE

\* _wait_for_fill, line 365: the loop condition has become false.
TimedOut(elapsed) == elapsed >= OrderTimeout

\* What adapter.get_order can answer: filled at a slip, a terminal refusal,
\* anything else (resting), or an exception.
PollResponses ==
    {[kind |-> "filled", slip |-> s] : s \in Slips}
      \cup {[kind |-> k, slip |-> 0] : k \in {"cancelled", "rejected", "resting", "error"}}

\* _wait_for_fill, lines 374 and 378: the sleep after a poll, in poll intervals
\* (0.5 s after an answer, 1.0 s after an exception), capped at the timeout.
Sleep(t, intervals) ==
    [t EXCEPT !.pc = "sleeping",
              !.elapsed = IF t.elapsed + intervals > OrderTimeout
                          THEN OrderTimeout ELSE t.elapsed + intervals]

\* A polling loop that keeps waiting after the exchange refused the order.
PollOutcomeRefusalWaits(t, resp) ==
    CASE resp.kind = "filled" -> FilledOutcome(t, resp.slip)
      [] resp.kind \in {"cancelled", "rejected", "resting"} -> Sleep(t, 1)
      [] resp.kind = "error" -> Sleep(t, 2)

\* _wait_for_fill, lines 366-378: one iteration of the polling loop.
PollOutcome(t, resp) ==
    CASE resp.kind = "filled" -> FilledOutcome(t, resp.slip)
      [] resp.kind \in {"cancelled", "rejected"} -> NoFillOutcome(t)
      [] resp.kind = "resting" -> Sleep(t, 1)
      [] resp.kind = "error" -> Sleep(t, 2)

\* _wait_for_fill, lines 365-380, from the loop condition to the next suspension.
WaitStep(t, resp) ==
    IF TimedOut(t.elapsed) THEN NoFillOutcome(t) ELSE PollOutcome(t, resp)

\* A basket that calls itself Complete as soon as one leg filled.
BasketStatusOfAnyFill(filled_count, total_count) ==
    IF filled_count > 0 THEN "complete" ELSE "failed"

\* A basket that calls itself Cancelled when no leg filled.
BasketStatusOfCancelledIfNone(filled_count, total_count) ==
    IF filled_count = total_count THEN "complete"
    ELSE IF filled_count > 0 THEN "partial"
    ELSE "cancelled"

\* execute_basket, lines 440-449.
BasketStatusOf(filled_count, total_count) ==
    IF filled_count = total_count THEN "complete"
    ELSE IF filled_count > 0 THEN "partial"
    ELSE "failed"

\* A rejected call that stores its Failed result in the history.
ExecuteBasketRejectedRecorded(sg) ==
    /\ pc = "idle"
    /\ validate_signal_group(sg) # None
    /\ signals' = sg
    /\ result' = [status |-> "failed", order_results |-> <<>>]
    /\ tasks' = <<>>
    /\ create_order_calls' = <<>>
    /\ pc' = "returned"
    /\ execution_history' = Append(execution_history, result')
    /\ UNCHANGED <<paper_trade, kill_switch>>
    /\ UNCHANGED <<scanVars, envVars>>

\* execute_basket, lines 404-409: validation fails, the call returns at once.
ExecuteBasketRejected(sg) ==
    /\ pc = "idle"
    /\ validate_signal_group(sg) # None
    /\ signals' = sg
    /\ result' = [status |-> "failed", order_results |-> <<>>]
    /\ tasks' = <<>>
    /\ create_order_calls' = <<>>
    /\ pc' = "returned"
    /\ UNCHANGED <<paper_trade, kill_switch, execution_history>>
    /\ UNCHANGED <<scanVars, envVars>>

\* execute_basket, lines 404-420: validation passes, the legs are handed to gather.
ExecuteBasketAccepted(sg) ==
    /\ pc = "idle"
    /\ validate_signal_group(sg) = None
    /\ signals' = sg
    /\ result' = [status |-> "executing", order_results |-> <<>>]
    /\ tasks' = [i \in DOMAIN sg |-> NewTask(sg[i])]
    /\ create_order_calls' = [i \in DOMAIN sg |-> 0]
    /\ pc' = "gathering"
    /\ UNCHANGED <<paper_trade, kill_switch, execution_history>>
    /\ UNCHANGED <<scanVars, envVars>>

\* _execute_single_order, lines 286-298: the leg starts and finds the kill switch on.
LegCancelled(i) ==
    /\ NextToStart(i)
    /\ KillSwitchSeenByLeg
    /\ tasks' = [tasks EXCEPT ![i] = CancelledOutcome(@)]
    /\ UNCHANGED <<paper_trade, kill_switch, execution_history, pc, signals, result,
                   create_order_calls>>
    /\ UNCHANGED <<scanVars, envVars>>

\* _execute_single_order, lines 301-303: a paper leg starts its simulated latency.
PaperStart(i) ==
    /\ NextToStart(i)
    /\ ~KillSwitchSeenByLeg
    /\ paper_trade
    /\ tasks' = [tasks EXCEPT ![i].pc = "sleeping"]
    /\ UNCHANGED <<paper_trade, kill_switch, execution_history, pc, signals, result,
                   create_order_calls>>
    /\ UNCHANGED <<scanVars, envVars>>

\* _execute_single_order, lines 306-313: the paper leg wakes and fills.
PaperFill(i) ==
    /\ pc = "gathering"
    /\ tasks[i].pc = "sleeping"
    /\ paper_trade
    /\ tasks' = [tasks EXCEPT ![i] = PaperFillOutcome(@)]
    /\ UNCHANGED <<paper_trade, kill_switch, execution_history, pc, signals, result,
                   create_order_calls>>
    /\ UNCHANGED <<scanVars, envVars>>

\* _execute_single_order, lines 317-332 and 349-352: create_order raises.
LiveSubmitRaises(i, msg) ==
    /\ NextToStart(i)
    /\ ~KillSwitchSeenByLeg
    /\ ~paper_trade
    /\ create_order_calls' = [create_order_calls EXCEPT ![i] = @ + 1]
    /\ tasks' = [tasks EXCEPT ![i] =
                    ExceptionOutcome(SetStatus(@, "submitted"), msg)]
    /\ UNCHANGED <<paper_trade, kill_switch, execution_history, pc, signals, result>>
    /\ UNCHANGED <<scanVars, envVars>>

\* _execute_single_order, lines 317-347: the order is placed and polled until the
\* first suspension of _wait_for_fill (or its return).
LiveSubmitStep(i, resp) ==
    /\ NextToStart(i)
    /\ ~KillSwitchSeenByLeg
    /\ ~paper_trade
    /\ create_order_calls' = [create_order_calls EXCEPT ![i] = @ + 1]
    /\ tasks' = [tasks EXCEPT ![i] =
                    WaitStep([SetStatus(@, "submitted") EXCEPT
                                 !.result.order_id = Some("ORDER")], resp)]
    /\ UNCHANGED <<paper_trade, kill_switch, execution_history, pc, signals, result>>
    /\ UNCHANGED scanVars

LiveSubmit(i, resp) == LiveSubmitStep(i, resp) /\ UNCHANGED envVars

\* _wait_for_fill, lines 365-380: the leg wakes from its sleep and loops.
LivePollStep(i, resp) ==
    /\ pc = "gathering"
    /\ tasks[i].pc = "sleeping"
    /\ ~paper_trade
    /\ tasks' = [tasks EXCEPT ![i] = WaitStep(@, resp)]
    /\ UNCHANGED <<paper_trade, kill_switch, execution_history, pc, signals, result,
                   create_order_calls>>
    /\ UNCHANGED scanVars

LivePoll(i, resp) == LivePollStep(i, resp) /\ UNCHANGED envVars

\* One iteration of leg i's _wait_for_fill, as a caller of get_order sees it:
\* the time waited so far and the status the exchange answered; no answer when
\* the loop condition was false (no request is made) or the request raised.
WaitIteration(i, resp) ==
    [op |-> "_wait_for_fill",
     input |-> [leg |-> i, elapsed |-> tasks[i].elapsed],
     returned |-> TRUE,
     output |-> IF TimedOut(tasks[i].elapsed) \/ resp.kind = "error"
                THEN None ELSE Some(resp.kind)]

\* LiveSubmit, with the first iteration of the wait put on record.
LiveSubmitFollowed(i, resp) ==
    /\ LiveSubmitStep(i, resp)
    /\ call' = WaitIteration(i, resp)
    /\ UNCHANGED exchange

\* LivePoll, with the iteration put on record.
LivePollFollowed(i, resp) ==
    /\ LivePollStep(i, resp)
    /\ call' = WaitIteration(i, resp)
    /\ UNCHANGED exchange

\* Results listed in the order Filled legs first, the others after them.
ProcessResultsFilledFirst(ts) ==
    LET results == [i \in DOMAIN ts |-> ts[i].result]
    IN SelectSeq(results, LAMBDA o : o.status = "filled")
         \o SelectSeq(results, LAMBDA o : o.status # "filled")

\* execute_basket, lines 420-437: gather returns the legs' results in the order
\* of the coroutines it was given, and the loop appends them in that order.
ProcessResults(ts) == [i \in DOMAIN ts |-> ts[i].result]

\* A gather that hands over as soon as one leg task has finished.
GatherDoneOnFirst == \E i \in DOMAIN tasks : tasks[i].pc = "done"

\* execute_basket, line 420: `await asyncio.gather(*tasks, ...)` resumes once
\* every leg task has finished.
GatherDone == \A i \in DOMAIN tasks : tasks[i].pc = "done"

\* execute_basket, lines 420-466: gather has every leg's result; the basket is
\* finalised, stored in the history and returned.
FinishBasket ==
    /\ pc = "gathering"
    /\ GatherDone
    /\ LET collected == [result EXCEPT !.order_results = ProcessResults(tasks)]
           final == [collected EXCEPT
                       !.status = BasketStatusOf(orders_filled(collected),
                                                 orders_total(collected))]
       IN /\ result' = final
          /\ execution_history' = Append(execution_history, final)
    /\ pc' = "returned"
    /\ UNCHANGED <<paper_trade, kill_switch, signals, tasks, create_order_calls>>
    /\ UNCHANGED <<scanVars, envVars>>

\* ===================================================== EventClassifier

\* The events of the exchange.  The first ticker holds a disqualifying keyword,
\* the second holds no keyword at all.
Events == {"KXPARDON-29", "KXFEDCHAIR-26"}

\* EventClassifier.QUALIFYING_KEYWORDS, in list order
QUALIFYING_KEYWORDS ==
    <<"nominee", "winner", "next pope", "president elect", "first to",
      "who will win", "who will be", "champion", "governor", "senator", "mayor",
      "super bowl", "world series", "nba finals">>

\* EventClassifier.DISQUALIFYING_KEYWORDS, in list order
DISQUALIFYING_KEYWORDS ==
    <<"pardon", "cabinet", "rate", "price", "by ", "by?", "approval", "poll", "gdp",
      "inflation", "unemployment", "temperature", "rain", "weather", "how many",
      "total", "combined", "cumulative", "schedule", "rescheduled">>

\* The strings the exchange serves, each with the keywords that occur in its
\* lower-cased text (Python's `keyword.lower() in text`).
KeywordsIn(string) ==
    CASE string = "KXPARDON-29" -> {"pardon"}
      [] string = "KXFEDCHAIR-26" -> {}
      [] string = "Fed chair" -> {}
      [] string = "Who will be the nominee?" -> {"nominee", "who will be"}
      [] string = "Approval rate" -> {"rate", "approval"}
      [] string = "Politics" -> {}
      [] OTHER -> {}

\* What GET /events/<ticker> can answer with: the `event` object.  A key that is
\* missing from the JSON is None here; a missing collateral_return_type reads as "".
EventMetadata ==
    { [mutually_exclusive |-> Some(TRUE), collateral_return_type |-> "",
       title |-> Some("Fed chair"), category |-> Some("Politics")],
      [mutually_exclusive |-> Some(FALSE), collateral_return_type |-> "MECNET",
       title |-> Some("Who will be the nominee?"), category |-> Some("Politics")],
      [mutually_exclusive |-> None, collateral_return_type |-> "MECNET",
       title |-> Some("Approval rate"), category |-> Some("Politics")],
      [mutually_exclusive |-> None, collateral_return_type |-> "binary",
       title |-> Some("Who will be the nominee?"), category |-> Some("Politics")],
      [mutually_exclusive |-> None, collateral_return_type |-> "",
       title |-> Some("Fed chair"), category |-> None] }

\* _fetch_event_metadata: the metadata, or None when the request fails.
FetchResponses == {None} \cup {Some(md) : md \in EventMetadata}

\* 'MEC' in collateral_type.upper()
HasMEC(collateral_type) == collateral_type = "MECNET"

\* First element of a keyword list that occurs in the text, or None.
RECURSIVE FirstKeyword(_, _)
FirstKeyword(keywords, text) ==
    IF keywords = <<>> THEN None
    ELSE IF Head(keywords) \in text THEN Some(Head(keywords))
    ELSE FirstKeyword(Tail(keywords), text)

\* Keywords of an optional string: `title or ''`.
OptKeywords(opt) == IF opt = None THEN {} ELSE KeywordsIn(opt[1])

EventClassification(event_ticker, event_type, confidence, kind, keyword, title, category, raw_metadata) ==
    [event_ticker |-> event_ticker, event_type |-> event_type,
     confidence |-> confidence, source |-> [kind |-> kind, keyword |-> keyword],
     title |-> title, category |-> category, raw_metadata |-> raw_metadata]

\* EventClassification.is_safe_for_arb
is_safe_for_arb(c) == c.event_type = "mutually_exclusive"

\* A _classify_by_metadata whose collateral-type inference claims the confidence
\* of the API flag.
classify_by_metadata_CollateralAsFlag(event_ticker, metadata) ==
    IF metadata.mutually_exclusive # None
    THEN Some(EventClassification(event_ticker,
                 IF metadata.mutually_exclusive[1] THEN "mutually_exclusive"
                                                   ELSE "independent",
                 100, "api_metadata", "", metadata.title, metadata.category,
                 Some(metadata)))
    ELSE IF HasMEC(metadata.collateral_return_type)
    THEN Some(EventClassification(event_ticker, "mutually_exclusive",
                 100, "collateral_type", "", metadata.title,
                 metadata.category, Some(metadata)))
    ELSE None

\* EventClassifier._classify_by_metadata; None when the metadata decides nothing.
\* The event_ticker of the result is the one the metadata carries, which is the
\* ticker that was asked for.
classify_by_metadata(event_ticker, metadata) ==
    IF metadata.mutually_exclusive # None
    THEN Some(EventClassification(event_ticker,
                 IF metadata.mutually_exclusive[1] THEN "mutually_exclusive"
                                                   ELSE "independent",
                 100, "api_metadata", "", metadata.title, metadata.category,
                 Some(metadata)))
    ELSE IF HasMEC(metadata.collateral_return_type)
    THEN Some(EventClassification(event_ticker, "mutually_exclusive",
                 90, "collateral_type", "", metadata.title,
                 metadata.category, Some(metadata)))
    ELSE None

\* A _classify_by_keywords that looks for a qualifying keyword before a
\* disqualifying one.
classify_by_keywords_QualifyFirst(event_ticker, title, category) ==
    LET text == KeywordsIn(event_ticker) \cup OptKeywords(title)
                  \cup OptKeywords(category)
        disq == FirstKeyword(DISQUALIFYING_KEYWORDS, text)
        qual == FirstKeyword(QUALIFYING_KEYWORDS, text)
    IN IF qual # None
       THEN EventClassification(event_ticker, "mutually_exclusive", 50,
                "keyword_qualify", qual[1], title, category, None)
       ELSE IF disq # None
       THEN EventClassification(event_ticker, "independent", 60,
                "keyword_disqualify", disq[1], title, category, None)
       ELSE EventClassification(event_ticker, "unknown", 0, "no_match", "",
                title, category, None)

\* EventClassifier._classify_by_keywords
classify_by_keywords(event_ticker, title, category) ==
    LET text == KeywordsIn(event_ticker) \cup OptKeywords(title)
                  \cup OptKeywords(category)
        disq == FirstKeyword(DISQUALIFYING_KEYWORDS, text)
        qual == FirstKeyword(QUALIFYING_KEYWORDS, text)
    IN IF disq # None
       THEN EventClassification(event_ticker, "independent", 60,
                "keyword_disqualify", disq[1], title, category, None)
       ELSE IF qual # None
       THEN EventClassification(event_ticker, "mutually_exclusive", 50,
                "keyword_qualify", qual[1], title, category, None)
       ELSE EventClassification(event_ticker, "unknown", 0, "no_match", "",
                title, category, None)

\* classify, lines 270-288: the classification derived from a fetch response.
FreshClassification(event_ticker, response) ==
    IF response # None
    THEN LET metadata == response[1]
             by_metadata == classify_by_metadata(event_ticker, metadata)
         IN IF by_metadata # None THEN by_metadata[1]
            ELSE [classify_by_keywords(event_ticker, metadata.title,
                                       metadata.category)
                    EXCEPT !.raw_metadata = Some(metadata)]
    ELSE classify_by_keywords(event_ticker, None, None)

\* A cache whose entries are still served when their age equals cache_ttl.
CacheHitAtTtl(c, t, event_ticker, use_cache) ==
    /\ use_cache
    /\ event_ticker \in DOMAIN c
    /\ t - c[event_ticker].timestamp <= CacheTtl

\* classify, lines 263-266: a cached entry younger than cache_ttl answers the call.
CacheHit(c, t, event_ticker, use_cache) ==
    /\ use_cache
    /\ event_ticker \in DOMAIN c
    /\ t - c[event_ticker].timestamp < CacheTtl

\* A classify that stores what it derived without metadata as an entry that has
\* expired already.
CacheAfterClassifyFallbackExpired(c, t, event_ticker, use_cache, response) ==
    IF CacheHit(c, t, event_ticker, use_cache) THEN c
    ELSE LET entry == [classification |-> FreshClassification(event_ticker, response),
                       timestamp |-> IF response = None THEN t - CacheTtl ELSE t]
         IN [e \in DOMAIN c \cup {event_ticker} |->
                IF e = event_ticker THEN entry ELSE c[e]]

\* classify: the cache after the call.  The classification returned is the one
\* the cache then holds for the ticker.
CacheAfterClassify(c, t, event_ticker, use_cache, response) ==
    IF CacheHit(c, t, event_ticker, use_cache) THEN c
    ELSE LET entry == [classification |-> FreshClassification(event_ticker, response),
                       timestamp |-> t]
         IN [e \in DOMAIN c \cup {event_ticker} |->
                IF e = event_ticker THEN entry ELSE c[e]]

\* classify: the fetch the call makes, None when the cache answers.
FetchMade(c, t, event_ticker, use_cache, response) ==
    IF CacheHit(c, t, event_ticker, use_cache) THEN None ELSE Some(response)

\* classify called on each ticker of a list in turn, responses[i] being what a
\* fetch for the i-th ticker would answer: the cache after the last call.
RECURSIVE CacheAfterClassifyAll(_, _, _, _)
CacheAfterClassifyAll(c, t, event_tickers, responses) ==
    IF event_tickers = <<>> THEN c
    ELSE CacheAfterClassifyAll(
             CacheAfterClassify(c, t, Head(event_tickers), TRUE, Head(responses)),
             t, Tail(event_tickers), Tail(responses))

\* The classifications those calls return, in call order.
RECURSIVE ClassifyAll(_, _, _, _)
ClassifyAll(c, t, event_tickers, responses) ==
    IF event_tickers = <<>> THEN <<>>
    ELSE LET c1 == CacheAfterClassify(c, t, Head(event_tickers), TRUE,
                                      Head(responses))
         IN <<c1[Head(event_tickers)].classification>>
              \o ClassifyAll(c1, t, Tail(event_tickers), Tail(responses))

\* The fetches those calls make, in call order.
RECURSIVE FetchesMade(_, _, _, _)
FetchesMade(c, t, event_tickers, responses) ==
    IF event_tickers = <<>> THEN <<>>
    ELSE <<FetchMade(c, t, Head(event_tickers), TRUE, Head(responses))>>
           \o FetchesMade(CacheAfterClassify(c, t, Head(event_tickers), TRUE,
                                             Head(responses)),
                          t, Tail(event_tickers), Tail(responses))

\* A response is consumed only by a fetch: a call that the cache answers is
\* given None, so that each input is enumerated once.
OnlyFetchesAnswered(event_tickers, responses) ==
    \A i \in DOMAIN event_tickers :
        FetchesMade(cache, now, event_tickers, responses)[i] = None
          => responses[i] = None

NoClassifierCall ==
    [op |-> "none", event_tickers |-> <<>>, min_confidence |-> 0,
     safe_events |-> <<>>]

ClassifierInit ==
    /\ now = 0
    /\ cache = <<>>
    /\ classifier_call = NoClassifierCall

\* Time passes between two calls.
Tick ==
    /\ now < MaxTime
    /\ now' = now + 1
    /\ UNCHANGED <<cache, classifier_call, scannerVars, execVars, envVars>>

\* EventClassifier.classify, as far as the classifier and its callers go.
ClassifyCall(event_ticker, use_cache, response) ==
    /\ CacheHit(cache, now, event_ticker, use_cache) => response = None
    /\ cache' = CacheAfterClassify(cache, now, event_ticker, use_cache, response)
    /\ classifier_call' =
         [op |-> "classify", event_tickers |-> <<event_ticker>>,
          min_confidence |-> 0, safe_events |-> <<>>]
    /\ UNCHANGED <<now, scannerVars, execVars>>

\* EventClassifier.classify
Classify(event_ticker, use_cache, response) ==
    /\ ClassifyCall(event_ticker, use_cache, response)
    /\ UNCHANGED envVars

\* EventClassifier.classify, the call being followed: its arguments, the fetch
\* it made (None when the cache answered) and the classification it returned.
ClassifyFollowed(event_ticker, use_cache, response) ==
    /\ ClassifyCall(event_ticker, use_cache, response)
    /\ call' = [op |-> "classify",
                input |-> [event_ticker |-> event_ticker, use_cache |-> use_cache],
                returned |-> TRUE,
                output |-> [fetch |-> FetchMade(cache, now, event_ticker, use_cache,
                                                response),
                            classification |-> cache'[event_ticker].classification]]
    /\ UNCHANGED exchange

\* The test of filter_mutually_exclusive without its confidence half.
AcceptedByFilterLabelOnly(c, min_confidence) ==
    c.event_type = "mutually_exclusive"

\* filter_mutually_exclusive, lines 327-328
AcceptedByFilter(c, min_confidence) ==
    c.event_type = "mutually_exclusive" /\ c.confidence >= min_confidence

\* The tickers of a list whose classification (same position) passes the filter.
RECURSIVE SafeAmong(_, _, _)
SafeAmong(event_tickers, classifications, min_confidence) ==
    IF event_tickers = <<>> THEN <<>>
    ELSE (IF AcceptedByFilter(Head(classifications), min_confidence)
          THEN <<Head(event_tickers)>> ELSE <<>>)
           \o SafeAmong(Tail(event_tickers), Tail(classifications), min_confidence)

\* EventClassifier.filter_mutually_exclusive
FilterMutuallyExclusive(event_tickers, min_confidence, responses) ==
    LET classifications == ClassifyAll(cache, now, event_tickers, responses)
    IN /\ OnlyFetchesAnswered(event_tickers, responses)
       /\ cache' = CacheAfterClassifyAll(cache, now, event_tickers, responses)
       /\ classifier_call' =
            [op |-> "filter_mutually_exclusive", event_tickers |-> event_tickers,
             min_confidence |-> min_confidence,
             safe_events |-> SafeAmong(event_tickers, classifications,
                                       min_confidence)]
       /\ UNCHANGED <<now, scannerVars, execVars, envVars>>

\* ================================================ StructuralArbStrategy

\* adapter.get_markets_by_event joined with adapter.get_orderbook_with_pricing:
\* the outcome markets the exchange lists for an event and their best prices.
\* The first event shows a buy arbitrage (asks sum to 85) on a liquid book, the
\* second a sell arbitrage (bids sum to 103) on a thin one.
Market(ticker, event_ticker, volume_24h, bid, ask) ==
    [market |-> [ticker |-> ticker, event_ticker |-> event_ticker,
                 volume_24h |-> volume_24h],
     orderbook |-> Some("orderbook"),
     pricing |-> Some([best_yes_bid |-> Some(bid), best_yes_ask |-> Some(ask)])]

MarketsOf(event_ticker) ==
    CASE event_ticker = "KXPARDON-29" ->
           <<Market("KXPARDON-29-A", event_ticker, 6000, 38, 40),
             Market("KXPARDON-29-B", event_ticker, 6000, 43, 45)>>
      [] event_ticker = "KXFEDCHAIR-26" ->
           <<Market("KXFEDCHAIR-26-A", event_ticker, 2000, 53, 55),
             Market("KXFEDCHAIR-26-B", event_ticker, 2000, 50, 52)>>
      [] OTHER -> <<>>

\* Concatenation of a sequence of sequences (list.extend in a loop).
RECURSIVE Flatten(_)
Flatten(seqs) == IF seqs = <<>> THEN <<>> ELSE Head(seqs) \o Flatten(Tail(seqs))

\* The distinct values of a sequence, in order of first appearance.
RECURSIVE Distinct(_)
Distinct(s) ==
    IF s = <<>> THEN <<>>
    ELSE LET rest == Distinct(SelectSeq(Tail(s), LAMBDA x : x # Head(s)))
         IN <<Head(s)>> \o rest

\* StructuralArbStrategy._group_by_event: the keys of the dict, in insertion order.
GroupKeys(markets) ==
    Distinct([i \in DOMAIN markets |-> markets[i].market.event_ticker])

\* StructuralArbStrategy._group_by_event: the list stored under one key.
GroupOf(markets, event_ticker) ==
    SelectSeq(markets, LAMBDA m : m.market.event_ticker = event_ticker)

\* _analyze_event, lines 216-239: the market counts toward the sums.
IsValidMarket(m) ==
    /\ m.pricing # None
    /\ m.pricing[1].best_yes_ask # None
    /\ m.pricing[1].best_yes_ask[1] > 0
    /\ require_two_sided =>
         /\ m.pricing[1].best_yes_bid # None
         /\ m.pricing[1].best_yes_bid[1] > 0

\* `yes_bid if yes_bid else 0`
BidOrZero(m) ==
    IF m.pricing[1].best_yes_bid = None THEN 0 ELSE m.pricing[1].best_yes_bid[1]

\* An _analyze_event whose profits are 100 - sum_yes_asks and sum_yes_bids - 100
\* whatever the sums are.
analyze_event_Unguarded(event_ticker, markets) ==
    LET valid_markets == SelectSeq(markets, IsValidMarket)
        sum_yes_asks ==
            SumSeq([i \in DOMAIN valid_markets |->
                      valid_markets[i].pricing[1].best_yes_ask[1]])
        sum_yes_bids == SumSeq([i \in DOMAIN valid_markets |-> BidOrZero(valid_markets[i])])
    IN [event_ticker |-> event_ticker,
        markets |-> valid_markets,
        sum_yes_asks |-> sum_yes_asks,
        sum_yes_bids |-> sum_yes_bids,
        buy_arb_profit |-> 100 - sum_yes_asks,
        sell_arb_profit |-> sum_yes_bids - 100,
        market_count |-> Len(valid_markets),
        total_markets |-> Len(markets),
        aggregate_volume |->
            SumSeq([i \in DOMAIN markets |-> markets[i].market.volume_24h])]

\* StructuralArbStrategy._analyze_event
analyze_event(event_ticker, markets) ==
    LET valid_markets == SelectSeq(markets, IsValidMarket)
        sum_yes_asks ==
            SumSeq([i \in DOMAIN valid_markets |->
                      valid_markets[i].pricing[1].best_yes_ask[1]])
        sum_yes_bids == SumSeq([i \in DOMAIN valid_markets |-> BidOrZero(valid_markets[i])])
    IN [event_ticker |-> event_ticker,
        markets |-> valid_markets,
        sum_yes_asks |-> sum_yes_asks,
        sum_yes_bids |-> sum_yes_bids,
        buy_arb_profit |-> IF sum_yes_asks > 0 THEN 100 - sum_yes_asks ELSE -100,
        sell_arb_profit |-> IF sum_yes_bids > 0 THEN sum_yes_bids - 100 ELSE -100,
        market_count |-> Len(valid_markets),
        total_markets |-> Len(markets),
        aggregate_volume |->
            SumSeq([i \in DOMAIN markets |-> markets[i].market.volume_24h])]

\* StructuralArbStrategy.analyze_all_events
analyze_all_events(markets) ==
    LET keys == GroupKeys(markets)
        kept == SelectSeq(keys, LAMBDA e :
                    /\ Len(GroupOf(markets, e)) >= min_markets
                    /\ Len(GroupOf(markets, e)) <= max_markets)
    IN [i \in DOMAIN kept |-> analyze_event(kept[i], GroupOf(markets, kept[i]))]

\* EventAnalysis.has_buy_arb
has_buy_arb(a) == a.buy_arb_profit > 0

\* EventAnalysis.has_sell_arb
has_sell_arb(a) == a.sell_arb_profit > 0

\* EventAnalysis.has_opportunity
has_opportunity(a) == a.buy_arb_profit > 0 \/ a.sell_arb_profit > 0

\* EventAnalysis.coverage < min_coverage, the latter in percent; the coverage of
\* an analysis without markets is 0.
CoverageBelow(a, min_coverage) ==
    IF a.total_markets = 0 THEN 0 < min_coverage
    ELSE a.market_count * 100 < min_coverage * a.total_markets

\* An is_high_quality that does not look at the coverage.
is_high_quality_AnyCoverage(a, min_coverage, min_contracts) ==
    /\ has_opportunity(a)
    /\ a.aggregate_volume >= min_contracts

\* EventAnalysis.is_high_quality; min_coverage is in percent.
is_high_quality(a, min_coverage, min_contracts) ==
    /\ has_opportunity(a)
    /\ ~CoverageBelow(a, min_coverage)
    /\ a.aggregate_volume >= min_contracts

Signal(ticker, side, price, event_ticker) ==
    [ticker |-> ticker, side |-> side, price |-> price, size |-> default_size,
     event_ticker |-> event_ticker]

\* Buy legs priced at the best YES bid of their market.
BuyLegsAtBid(a) ==
    LET priced == SelectSeq(a.markets, LAMBDA m :
                      m.pricing # None /\ m.pricing[1].best_yes_ask # None
                        /\ m.pricing[1].best_yes_ask[1] # 0)
    IN [i \in DOMAIN priced |->
          Signal(priced[i].market.ticker, "buy",
                 priced[i].pricing[1].best_yes_bid[1], a.event_ticker)]

\* generate_signals / generate_signal_groups: the Buy legs of one analysis.
BuyLegs(a) ==
    LET priced == SelectSeq(a.markets, LAMBDA m :
                      m.pricing # None /\ m.pricing[1].best_yes_ask # None
                        /\ m.pricing[1].best_yes_ask[1] # 0)
    IN [i \in DOMAIN priced |->
          Signal(priced[i].market.ticker, "buy",
                 priced[i].pricing[1].best_yes_ask[1], a.event_ticker)]

\* generate_signals / generate_signal_groups: the Sell legs of one analysis.
SellLegs(a) ==
    LET priced == SelectSeq(a.markets, LAMBDA m :
                      m.pricing # None /\ m.pricing[1].best_yes_bid # None
                        /\ m.pricing[1].best_yes_bid[1] # 0)
    IN [i \in DOMAIN priced |->
          Signal(priced[i].market.ticker, "sell",
                 priced[i].pricing[1].best_yes_bid[1], a.event_ticker)]

HasBuySignal(a) == a.sum_yes_asks < buy_threshold /\ a.sum_yes_asks > 0

HasSellSignal(a) == a.sum_yes_bids > sell_threshold

\* StructuralArbStrategy.generate_signals
generate_signals(markets) ==
    LET analyses == analyze_all_events(markets)
    IN Flatten([i \in DOMAIN analyses |->
          (IF HasBuySignal(analyses[i]) THEN BuyLegs(analyses[i]) ELSE <<>>)
            \o (IF HasSellSignal(analyses[i]) THEN SellLegs(analyses[i]) ELSE <<>>)])

SignalGroup(arb_type, event_ticker, legs) ==
    [group_name |-> <<arb_type, event_ticker>>, event_ticker |-> event_ticker,
     signals |-> legs]

\* StructuralArbStrategy.generate_signal_groups
generate_signal_groups(markets) ==
    LET analyses == analyze_all_events(markets)
    IN Flatten([i \in DOMAIN analyses |->
          (IF HasBuySignal(analyses[i]) /\ BuyLegs(analyses[i]) # <<>>
           THEN <<SignalGroup("BUY_ALL", analyses[i].event_ticker,
                              BuyLegs(analyses[i]))>>
           ELSE <<>>)
            \o (IF HasSellSignal(analyses[i]) /\ SellLegs(analyses[i]) # <<>>
                THEN <<SignalGroup("SELL_ALL", analyses[i].event_ticker,
                                   SellLegs(analyses[i]))>>
                ELSE <<>>)])

\* ================================================= StructuralArbScanner

\* dict[key] = value on a dict kept as the sequence of its values in insertion
\* order: an existing key keeps its place.
DictPut(d, data) ==
    IF \E i \in DOMAIN d : d[i].event_ticker = data.event_ticker
    THEN [i \in DOMAIN d |->
            IF d[i].event_ticker = data.event_ticker THEN data ELSE d[i]]
    ELSE Append(d, data)

RECURSIVE DictPutAll(_, _)
DictPutAll(d, datas) ==
    IF datas = <<>> THEN d ELSE DictPutAll(DictPut(d, Head(datas)), Tail(datas))

\* What adapter.get_orderbook_with_pricing does for one market: it raises, or
\* returns (None, None) for a book it could not fetch, (raw, None) for a book
\* with a side without bids, or (raw, pricing).
BookResponse(raised, orderbook, pricing) ==
    [raised |-> raised, orderbook |-> orderbook, pricing |-> pricing]

\* _fetch_complete_event, lines 626-646: the MarketWithOrderbook appended for
\* one market, in the try branch or in the except branch.
MarketWithOrderbook(market_info, response) ==
    IF response.raised
    THEN [market |-> market_info, orderbook |-> None, pricing |-> None]
    ELSE [market |-> market_info, orderbook |-> response.orderbook,
          pricing |-> response.pricing]

\* `m.pricing and m.pricing.best_yes_ask`
HasPricing(m) ==
    /\ m.pricing # None
    /\ m.pricing[1].best_yes_ask # None
    /\ m.pricing[1].best_yes_ask[1] # 0

\* A _fetch_complete_event that leaves out the markets whose orderbook request
\* raised.
CompleteEventDataDroppingFailures(event_ticker, source_market_count, all_market_infos, responses) ==
    LET kept == SelectSeq([i \in DOMAIN all_market_infos |->
                              [info |-> all_market_infos[i], response |-> responses[i]]],
                          LAMBDA x : ~x.response.raised)
        markets_with_orderbook ==
            [i \in DOMAIN kept |-> MarketWithOrderbook(kept[i].info, kept[i].response)]
    IN [event_ticker |-> event_ticker,
        total_markets |-> Len(kept),
        markets_with_orderbook |->
            Len(SelectSeq(markets_with_orderbook, LAMBDA m : m.orderbook # None)),
        markets_with_pricing |-> Len(SelectSeq(markets_with_orderbook, HasPricing)),
        markets |-> markets_with_orderbook,
        source_market_count |-> source_market_count]

\* StructuralArbScanner._fetch_complete_event, given what the adapter answers:
\* all_market_infos is the result of get_markets_by_event and responses[i] what
\* get_orderbook_with_pricing does for the i-th market.
CompleteEventData(event_ticker, source_market_count, all_market_infos, responses) ==
    LET markets_with_orderbook ==
            [i \in DOMAIN all_market_infos |->
                MarketWithOrderbook(all_market_infos[i], responses[i])]
    IN [event_ticker |-> event_ticker,
        total_markets |-> Len(all_market_infos),
        markets_with_orderbook |->
            Len(SelectSeq(markets_with_orderbook, LAMBDA m : m.orderbook # None)),
        markets_with_pricing |-> Len(SelectSeq(markets_with_orderbook, HasPricing)),
        markets |-> markets_with_orderbook,
        source_market_count |-> source_market_count]

\* CompleteEventData.completeness, in percent (rounded down).
completeness(data) ==
    IF data.total_markets = 0 THEN 0
    ELSE (100 * data.markets_with_pricing) \div data.total_markets

\* The exchange's answers about one event: the markets get_markets_by_event
\* lists and, for the i-th of them, what get_orderbook_with_pricing does.
Listing(all_market_infos, responses) ==
    [raised |-> FALSE, all_market_infos |-> all_market_infos, responses |-> responses]

\* get_markets_by_event raises: the markets request of the event fails.
ListingFails == [raised |-> TRUE, all_market_infos |-> <<>>, responses |-> <<>>]

\* The events of a list that are fetched before get_markets_by_event raises for
\* one of them; the whole list when it raises for none.
RECURSIVE FetchedBeforeRaise(_, _)
FetchedBeforeRaise(exch, event_tickers) ==
    IF event_tickers = <<>> THEN <<>>
    ELSE IF exch[Head(event_tickers)].raised THEN <<>>
    ELSE <<Head(event_tickers)>> \o FetchedBeforeRaise(exch, Tail(event_tickers))


\* The exchange of MarketsOf, where every orderbook request is answered.
DefaultExchange ==
    [e \in Events |->
        LET markets == MarketsOf(e)
        IN Listing([i \in DOMAIN markets |-> markets[i].market],
                   [i \in DOMAIN markets |->
                       BookResponse(FALSE, markets[i].orderbook, markets[i].pricing)])]

\* StructuralArbScanner._fetch_complete_event
fetch_complete_event(event_ticker, source_market_count) ==
    CompleteEventData(event_ticker, source_market_count,
                      exchange[event_ticker].all_market_infos,
                      exchange[event_ticker].responses)

\* all_markets.extend(complete_event.markets) over a list of CompleteEventData
AllMarkets(datas) == Flatten([i \in DOMAIN datas |-> datas[i].markets])

\* The event tickers of a list of analyses, signals or signal groups.
EventTickers(items) == {items[i].event_ticker : i \in DOMAIN items}

\* The events whose markets are in a list of markets.
EventsOfMarkets(markets) == {markets[i].market.event_ticker : i \in DOMAIN markets}

\* What the last scanner call did with the strategy: the events whose markets it
\* handed over, and the events of the analyses, signals or groups it returned.
StrategyCall(op, markets, output) ==
    [op |-> op, events_in |-> EventsOfMarkets(markets),
     events_out |-> EventTickers(output), output |-> output,
     raised |-> FALSE, safe_events |-> {}]

NoStrategyCall ==
    [op |-> "none", events_in |-> {}, events_out |-> {}, output |-> <<>>,
     raised |-> FALSE, safe_events |-> {}]

\* A scanner call that ended with an exception before it reached the strategy.
RaisedCall(op, event_tickers) ==
    [op |-> op, events_in |-> {}, events_out |-> {}, output |-> <<>>,
     raised |-> TRUE, safe_events |-> Range(event_tickers)]

ScannerInit ==
    /\ complete_events = <<>>
    /\ excluded_events = <<>>
    /\ last_analyses = <<>>
    /\ strategy_call = NoStrategyCall

\* scan_top_volume, line 720: the test that admits an event to safe_events.
AdmittedByScan(c) == is_safe_for_arb(c)

\* scan_top_volume, lines 710-735: safe_events.
SafeEvents(event_tickers, classifications) ==
    IF require_mutually_exclusive
    THEN LET safe == {i \in DOMAIN event_tickers : AdmittedByScan(classifications[i])}
             RECURSIVE Pick(_)
             Pick(i) == IF i > Len(event_tickers) THEN <<>>
                        ELSE (IF i \in safe THEN <<event_tickers[i]>> ELSE <<>>)
                               \o Pick(i + 1)
         IN Pick(1)
    ELSE event_tickers

\* scan_top_volume, lines 710-735: excluded_events.
ExcludedEvents(event_tickers, classifications) ==
    IF require_mutually_exclusive
    THEN LET out == {i \in DOMAIN event_tickers :
                        ~AdmittedByScan(classifications[i])}
         IN [e \in {event_tickers[i] : i \in out} |->
               LET i == CHOOSE j \in out : event_tickers[j] = e
               IN [event_type |-> classifications[i].event_type,
                   source |-> classifications[i].source]]
    ELSE <<>>

\* StructuralArbScanner.scan_top_volume.  event_tickers is the list of distinct
\* events of the top-volume markets (each seen through one market of the seed),
\* responses[i] what a metadata fetch for the i-th of them answers.
ScanTopVolume(event_tickers, responses) ==
    LET classifications == ClassifyAll(cache, now, event_tickers, responses)
        safe_events == SafeEvents(event_tickers, classifications)
        reached == FetchedBeforeRaise(exchange, safe_events)
        fetched == [i \in DOMAIN reached |-> fetch_complete_event(reached[i], 1)]
        all_complete_markets == AllMarkets(fetched)
        analyses == analyze_all_events(all_complete_markets)
    IN /\ OnlyFetchesAnswered(event_tickers, responses)
       /\ cache' = IF require_mutually_exclusive
                   THEN CacheAfterClassifyAll(cache, now, event_tickers, responses)
                   ELSE cache
       /\ excluded_events' = ExcludedEvents(event_tickers, classifications)
       /\ complete_events' = DictPutAll(complete_events, fetched)
       /\ IF reached = safe_events
          THEN /\ last_analyses' = analyses
               /\ strategy_call' =
                    [StrategyCall("scan_top_volume", all_complete_markets, analyses)
                       EXCEPT !.safe_events = Range(safe_events)]
          ELSE /\ last_analyses' = last_analyses
               /\ strategy_call' = RaisedCall("scan_top_volume", safe_events)
       /\ UNCHANGED <<now, classifier_call, execVars, envVars>>

\* StructuralArbScanner.scan_events
ScanEvents(event_tickers) ==
    LET reached == FetchedBeforeRaise(exchange, event_tickers)
        fetched == [i \in DOMAIN reached |-> fetch_complete_event(reached[i], 0)]
        all_markets == AllMarkets(fetched)
        analyses == analyze_all_events(all_markets)
    IN /\ complete_events' = DictPutAll(complete_events, fetched)
       /\ IF reached = event_tickers
          THEN /\ last_analyses' = analyses
               /\ strategy_call' = StrategyCall("scan_events", all_markets, analyses)
          ELSE /\ last_analyses' = last_analyses
               /\ strategy_call' = RaisedCall("scan_events", event_tickers)
       /\ UNCHANGED <<excluded_events, classifierVars, execVars, envVars>>

\* StructuralArbScanner.get_signals
GetSignals ==
    LET all_markets == AllMarkets(complete_events)
    IN /\ strategy_call' = StrategyCall("get_signals", all_markets,
                                         generate_signals(all_markets))
       /\ UNCHANGED <<complete_events, excluded_events, last_analyses,
                      classifierVars, execVars, envVars>>

\* StructuralArbScanner.get_signal_groups
GetSignalGroups ==
    LET all_markets == AllMarkets(complete_events)
    IN /\ strategy_call' = StrategyCall("get_signal_groups", all_markets,
                                         generate_signal_groups(all_markets))
       /\ UNCHANGED <<complete_events, excluded_events, last_analyses,
                      classifierVars, execVars, envVars>>

\* StructuralArbScanner.get_filtered_signal_groups
GetFilteredSignalGroups(min_coverage, min_contracts) ==
    LET hq == SelectSeq(last_analyses, LAMBDA a :
                  is_high_quality(a, min_coverage, min_contracts))
        hq_events == EventTickers(hq)
        all_markets == AllMarkets(complete_events)
        all_groups == generate_signal_groups(all_markets)
        groups == SelectSeq(all_groups, LAMBDA g : g.event_ticker \in hq_events)
    IN /\ strategy_call' = StrategyCall("get_filtered_signal_groups", all_markets,
                                         groups)
       /\ UNCHANGED <<complete_events, excluded_events, last_analyses,
                      classifierVars, execVars, envVars>>

\* ------------------------------------------------------- specifications

\* No function call is being followed.
NoCall == [op |-> "none", input |-> <<>>, returned |-> FALSE, output |-> None]

Init ==
    /\ ExecInit /\ ClassifierInit /\ ScannerInit
    /\ call = NoCall
    /\ exchange = DefaultExchange

\* The scanner and the classifier with an ExecutionManager that is never called
\* (paper_trade at its default).
ScanInit == Init /\ paper_trade = TRUE

ExecNext ==
    \/ kill
    \/ reset_kill_switch
    \/ \E sg \in SignalGroups : ExecuteBasketRejected(sg)
    \/ \E sg \in SignalGroups : ExecuteBasketAccepted(sg)
    \/ \E i \in DOMAIN tasks : LegCancelled(i)
    \/ \E i \in DOMAIN tasks : PaperStart(i)
    \/ \E i \in DOMAIN tasks : PaperFill(i)
    \/ \E i \in DOMAIN tasks, msg \in SubmitErrors : LiveSubmitRaises(i, msg)
    \/ \E i \in DOMAIN tasks, resp \in PollResponses : LiveSubmit(i, resp)
    \/ \E i \in DOMAIN tasks, resp \in PollResponses : LivePoll(i, resp)
    \/ FinishBasket

SpecExec == Init /\ [][ExecNext]_vars

\* Every step a leg task can take.
LegStep(i) ==
    /\ i \in DOMAIN tasks
    /\ \/ LegCancelled(i)
       \/ PaperStart(i)
       \/ PaperFill(i)
       \/ \E msg \in SubmitErrors : LiveSubmitRaises(i, msg)
       \/ \E resp \in PollResponses : LiveSubmit(i, resp)
       \/ \E resp \in PollResponses : LivePoll(i, resp)

\* Some step of the basket in flight: a leg task runs, or gather hands over.
BasketProgress == (\E i \in DOMAIN tasks : LegStep(i)) \/ FinishBasket

\* The event loop keeps running what is ready: a leg task that can run, and
\* execute_basket once gather has every result.  kill and reset_kill_switch are
\* the caller's choice and get no fairness.
FairSpecExec == SpecExec /\ WF_vars(BasketProgress)

\* ---- a manager whose polls are followed

\* Signal groups of Sell legs: the basket-cost limit does not apply to them.
PollGroups == {sg \in SignalGroups : \A i \in DOMAIN sg : sg[i].side = "sell"}

PollNext ==
    \/ kill
    \/ reset_kill_switch
    \/ \E sg \in PollGroups : ExecuteBasketRejected(sg)
    \/ \E sg \in PollGroups : ExecuteBasketAccepted(sg)
    \/ \E i \in DOMAIN tasks : LegCancelled(i)
    \/ \E i \in DOMAIN tasks : PaperStart(i)
    \/ \E i \in DOMAIN tasks : PaperFill(i)
    \/ \E i \in DOMAIN tasks, msg \in SubmitErrors : LiveSubmitRaises(i, msg)
    \/ \E i \in DOMAIN tasks, resp \in PollResponses : LiveSubmitFollowed(i, resp)
    \/ \E i \in DOMAIN tasks, resp \in PollResponses : LivePollFollowed(i, resp)
    \/ FinishBasket

\* One execute_basket call, in paper or in live mode, on Sell-only groups, with
\* every iteration of every leg's _wait_for_fill on record.
SpecPoll == Init /\ [][PollNext]_vars

\* ---- a manager with a past and a second caller

\* What an earlier paper basket of these signals left in the history: every leg
\* Filled, the basket Complete.
PaperBasketResult(sg) ==
    [status |-> "complete",
     order_results |-> [i \in DOMAIN sg |-> PaperFillOutcome(NewTask(sg[i])).result]]

\* What an earlier basket left whose only leg was cancelled by the kill switch.
CancelledBasketResult(sg) ==
    [status |-> "failed",
     order_results |-> [i \in DOMAIN sg |-> CancelledOutcome(NewTask(sg[i])).result]]

EarlierSignal == [ticker |-> "KXA", side |-> "buy", price |-> 50, size |-> 10]

\* execution_history when the call followed is made: empty, or what two earlier
\* baskets appended.
EarlierHistories ==
    {<<>>, <<PaperBasketResult(<<EarlierSignal, EarlierSignal>>),
             CancelledBasketResult(<<EarlierSignal>>)>>}

\* The BasketResult of another execute_basket call running on the same manager.
ConcurrentResult == PaperBasketResult(<<EarlierSignal>>)

\* The groups handed to the call followed: Sell legs, within the size cap or
\* above it.
HistoryGroups == {sg \in SignalGroups : \A i \in DOMAIN sg : sg[i].side = "sell"}

HistoryInit ==
    /\ paper_trade \in BOOLEAN
    /\ kill_switch = FALSE
    /\ execution_history \in EarlierHistories
    /\ pc = "idle"
    /\ signals = <<>>
    /\ result = NoResult
    /\ tasks = <<>>
    /\ create_order_calls = <<>>
    /\ ClassifierInit /\ ScannerInit
    /\ call = NoCall
    /\ exchange = DefaultExchange

\* execute_basket, line 464, in the other call: it stores its result while the
\* call followed is at any point of its own run.
ConcurrentBasketFinishes ==
    /\ \A k \in DOMAIN execution_history : execution_history[k] # ConcurrentResult
    /\ execution_history' = Append(execution_history, ConcurrentResult)
    /\ UNCHANGED <<paper_trade, kill_switch, pc, signals, result, tasks,
                   create_order_calls>>
    /\ UNCHANGED <<scanVars, envVars>>

HistoryNext ==
    \/ kill
    \/ reset_kill_switch
    \/ \E sg \in HistoryGroups : ExecuteBasketRejected(sg)
    \/ \E sg \in HistoryGroups : ExecuteBasketAccepted(sg)
    \/ \E i \in DOMAIN tasks : LegCancelled(i)
    \/ \E i \in DOMAIN tasks : PaperStart(i)
    \/ \E i \in DOMAIN tasks : PaperFill(i)
    \/ \E i \in DOMAIN tasks, msg \in SubmitErrors : LiveSubmitRaises(i, msg)
    \/ \E i \in DOMAIN tasks, resp \in PollResponses : LiveSubmit(i, resp)
    \/ \E i \in DOMAIN tasks, resp \in PollResponses : LivePoll(i, resp)
    \/ FinishBasket
    \/ ConcurrentBasketFinishes

\* One execute_basket call on a manager that may have run baskets before and
\* that runs another basket at the same time.
SpecHistory == HistoryInit /\ [][HistoryNext]_vars

\* Lists of tickers handed to filter_mutually_exclusive: any list, repeats
\* included, that is no longer than the list of all events.
TickerLists == UNION {[1..n -> Events] : n \in 0..Cardinality(Events)}

\* Lists of distinct events: the events of a top-volume seed, in any order (a
\* Python set's), and the lists handed to scan_events.
SeedLists == {s \in UNION {[1..n -> Events] : n \in 0..Cardinality(Events)} :
                 \A i, j \in DOMAIN s : i # j => s[i] # s[j]}

\* filter_mutually_exclusive(min_confidence=...), in percent
MinConfidences == {50, default_min_confidence}

ClassifierNext ==
    \/ Tick
    \/ \E e \in Events, use_cache \in BOOLEAN, response \in FetchResponses :
          Classify(e, use_cache, response)
    \/ \E event_tickers \in TickerLists, min_confidence \in MinConfidences :
          \E responses \in [DOMAIN event_tickers -> FetchResponses] :
              FilterMutuallyExclusive(event_tickers, min_confidence, responses)

\* The classifier on its own.
SpecClassifier == ScanInit /\ [][ClassifierNext]_vars

CacheNext ==
    \/ Tick
    \/ \E e \in Events, use_cache \in BOOLEAN, response \in FetchResponses :
          ClassifyFollowed(e, use_cache, response)

\* classify called again and again as time passes, each call followed from its
\* arguments to its return value.
SpecCache == ScanInit /\ [][CacheNext]_vars

ScanNext ==
    \/ \E event_tickers \in SeedLists :
          \E responses \in [DOMAIN event_tickers -> FetchResponses] :
              ScanTopVolume(event_tickers, responses)
    \/ \E event_tickers \in SeedLists : ScanEvents(event_tickers)
    \/ GetSignals
    \/ GetSignalGroups
    \/ GetFilteredSignalGroups(default_min_coverage, default_min_contracts)

\* One StructuralArbScanner and the classifier it owns, all calls falling within
\* one cache_ttl of the first.
SpecScan == ScanInit /\ [][ScanNext]_vars


\* ------------------------------------------------- execution: properties

Legs == DOMAIN tasks

StatusesOfTasks == [i \in DOMAIN tasks |-> tasks[i].result.status]

\* The step is the execute_basket call itself.
IsCallStep == pc = "idle" /\ pc' # "idle"

\* A leg whose size exceeds the per-market cap.
Oversized(sg) == \E i \in DOMAIN sg : sg[i].size > max_position_per_market

\* Buy-side notional in cents, summed leg by leg.
RECURSIVE BuyCents(_)
BuyCents(sg) ==
    IF sg = <<>> THEN 0
    ELSE (IF Head(sg).side = "buy" THEN Head(sg).price * Head(sg).size ELSE 0)
           + BuyCents(Tail(sg))

\* C1: a call made while the kill switch is on, or with a leg above
\* max_position_per_market, or with buy-side notional above max_basket_cost, returns
\* at once with status Failed and no OrderResults; no leg task exists, nothing is
\* ever submitted for it, and nothing is stored in the history.
C1_FailClosed ==
    /\ [][(IsCallStep /\ (kill_switch \/ Oversized(signals')
                                      \/ BuyCents(signals') > max_basket_cost * 100))
            => /\ pc' = "returned"
               /\ result'.status = "failed"
               /\ result'.order_results = <<>>
               /\ tasks' = <<>>
               /\ create_order_calls' = <<>>]_vars
    /\ []((pc = "returned" /\ tasks = <<>>)
            => /\ result.status = "failed"
               /\ result.order_results = <<>>
               /\ create_order_calls = <<>>
               /\ execution_history = <<>>)

\* C1 witness: a basket of two Buy legs and more within the size cap, refused for
\* its cost alone.
C1_Witness ==
    /\ pc = "returned"
    /\ ~Oversized(signals)
    /\ BuyCents(signals) > max_basket_cost * 100
    /\ result.status = "failed"
    /\ result.order_results = <<>>

\* C4: while the kill switch is on, a call is refused at entry, a leg that has not
\* started leaves "ready" only as Cancelled, and no create_order call is made.
C4_KillSwitch ==
    [][kill_switch =>
         /\ IsCallStep => (pc' = "returned" /\ tasks' = <<>>)
         /\ create_order_calls' = create_order_calls \/ IsCallStep
         /\ \A i \in DOMAIN tasks \cap DOMAIN tasks' :
               (tasks[i].pc = "ready" /\ tasks'[i] # tasks[i])
                 => /\ tasks'[i].pc = "done"
                    /\ tasks'[i].result.status = "cancelled"
                    /\ tasks'[i].result.order_id = None]_vars

\* C4 witness: the switch was thrown between two legs of a live basket: one leg is
\* already submitted, a later one was cancelled.
C4_Witness ==
    /\ pc = "gathering"
    /\ kill_switch
    /\ \E i, j \in Legs :
          /\ tasks[i].result.status = "submitted"
          /\ create_order_calls[i] = 1
          /\ tasks[j].result.status = "cancelled"
          /\ create_order_calls[j] = 0

NumFilled == Cardinality({i \in Legs : tasks[i].result.status = "filled"})

\* C5: once a validated basket has returned, its status is Complete iff every leg
\* task ended Filled, Partial iff some but not all did, Failed iff none did, and
\* fill_rate is (Filled legs) / (legs).
C5_BasketStatus ==
    (pc = "returned" /\ tasks # <<>>) =>
        /\ result.status \in {"complete", "partial", "failed"}
        /\ result.status = "complete" <=> NumFilled = Len(tasks)
        /\ result.status = "partial" <=> (NumFilled > 0 /\ NumFilled < Len(tasks))
        /\ result.status = "failed" <=> NumFilled = 0
        /\ fill_rate(result) = <<NumFilled, Len(tasks)>>
        /\ (StatusesOfTasks = <<"filled", "failed", "filled">>
              => result.status = "partial" /\ fill_rate(result) = <<2, 3>>)

\* C5 witness: legs [Filled, Failed, Filled].
C5_Witness ==
    /\ pc = "returned"
    /\ StatusesOfTasks = <<"filled", "failed", "filled">>
    /\ result.status = "partial"
    /\ fill_rate(result) = <<2, 3>>

TimeoutMessage == Some("Order did not fill within timeout")

\* C6: in live mode a leg still unfilled when its timeout has elapsed ends Failed
\* with the timeout message at its next step, that step touches no other leg, and
\* every basket handed to gather returns; with legs 1 and 3 Filled and leg 2
\* Failed the basket is Partial.
C6_Timeout ==
    /\ [][\A i \in DOMAIN tasks \cap DOMAIN tasks' :
            (~paper_trade /\ tasks[i].pc = "sleeping"
               /\ tasks[i].elapsed >= OrderTimeout /\ tasks'[i] # tasks[i])
              => /\ tasks'[i].pc = "done"
                 /\ tasks'[i].result.status = "failed"
                 /\ tasks'[i].result.error_message = TimeoutMessage
                 /\ \A j \in DOMAIN tasks : j # i => tasks'[j] = tasks[j]]_vars
    /\ []((pc = "returned" /\ ~paper_trade
             /\ StatusesOfTasks = <<"filled", "failed", "filled">>)
            => result.status = "partial")
    /\ (pc = "gathering") ~> (pc = "returned")

\* C6 witness: leg 2 of a live three-leg basket has slept through its whole
\* timeout unfilled while legs 1 and 3 are Filled.
C6_Witness ==
    /\ ~paper_trade
    /\ pc = "gathering"
    /\ Len(tasks) = 3
    /\ tasks[2].pc = "sleeping"
    /\ tasks[2].elapsed >= OrderTimeout
    /\ tasks[1].result.status = "filled"
    /\ tasks[3].result.status = "filled"

\* The step is a get_order call of leg i that raised: only then does the loop
\* sleep 1.0 s, two poll intervals.
PollRaised(i) ==
    /\ i \in DOMAIN tasks \cap DOMAIN tasks'
    /\ tasks'[i].pc = "sleeping"
    /\ tasks'[i].elapsed = tasks[i].elapsed + 2

\* The leg's create_order call was made and raised: no order id came back.
SubmitRaised(i) ==
    /\ create_order_calls[i] = 1
    /\ tasks[i].pc = "done"
    /\ tasks[i].result.order_id = None

C8_NoRetry ==
    /\ [](\A i \in Legs :
            /\ create_order_calls[i] <= 1
            /\ (paper_trade \/ tasks[i].pc = "ready") => create_order_calls[i] = 0)
    /\ [][\A i \in DOMAIN tasks \cap DOMAIN tasks' :
            tasks[i].pc = "done" => tasks'[i] = tasks[i]]_vars

\* C8 witness: a submitted leg ended Failed without a fill, after exactly one
\* create_order call.
C8_Witness ==
    /\ pc = "returned"
    /\ \E i \in Legs :
          /\ create_order_calls[i] = 1
          /\ tasks[i].result.order_id # None
          /\ tasks[i].result.status = "failed"
          /\ tasks[i].result.error_message = TimeoutMessage

\* --------------------------------------------- functions called on their own

\* Everything but the call being followed, at rest.
QuietInit == ExecInit /\ ClassifierInit /\ ScannerInit /\ paper_trade = TRUE

\* A call that has its arguments and has not returned yet.
PendingCall(op, input) ==
    [op |-> op, input |-> input, returned |-> FALSE, output |-> None]

\* ---- utils/orderbook.py

\* db.models.MarketPricing as extract_best_prices builds it; prices in cents.
MarketPricing(best_yes_bid, best_no_bid, yes_bid_depth, no_bid_depth) ==
    [best_yes_bid |-> best_yes_bid, best_no_bid |-> best_no_bid,
     best_yes_ask |-> None, best_no_ask |-> None,
     yes_spread |-> None, no_spread |-> None,
     yes_bid_depth |-> yes_bid_depth, no_bid_depth |-> no_bid_depth]

\* MarketPricing.calculate_implied_asks; both bids are numbers here.
calculate_implied_asks(pricing) ==
    [pricing EXCEPT
        !.best_yes_ask = IF @ = None THEN Some(100 - pricing.best_no_bid) ELSE @,
        !.best_no_ask = IF @ = None THEN Some(100 - pricing.best_yes_bid) ELSE @]

\* MarketPricing.calculate_spreads
calculate_spreads(pricing) ==
    [pricing EXCEPT
        !.yes_spread = IF pricing.best_yes_ask # None
                       THEN Some(pricing.best_yes_ask[1] - pricing.best_yes_bid)
                       ELSE @,
        !.no_spread = IF pricing.best_no_ask # None
                      THEN Some(pricing.best_no_ask[1] - pricing.best_no_bid)
                      ELSE @]

\* Price of the last level of a side, None for a side without bids.
BestBid(bids) == IF bids = <<>> THEN None ELSE Some(bids[Len(bids)][1])

\* Sum of the quantities of a side.
Depth(bids) == SumSeq([i \in DOMAIN bids |-> bids[i][2]])

\* `best_bid or 0.0`
OrZero(opt) == IF opt = None THEN 0 ELSE opt[1]

\* An extract_best_prices that takes the first level of each side as its best.
extract_best_prices_FirstLevel(yes_bids, no_bids) ==
    IF yes_bids = <<>> /\ no_bids = <<>> THEN None
    ELSE IF yes_bids = <<>> \/ no_bids = <<>>
    THEN Some(MarketPricing(IF yes_bids = <<>> THEN 0 ELSE yes_bids[1][1],
                            IF no_bids = <<>> THEN 0 ELSE no_bids[1][1],
                            Depth(yes_bids), Depth(no_bids)))
    ELSE Some(calculate_spreads(calculate_implied_asks(
                  MarketPricing(yes_bids[1][1], no_bids[1][1],
                                Depth(yes_bids), Depth(no_bids)))))

\* utils.orderbook.extract_best_prices; None is "insufficient data".
extract_best_prices(yes_bids, no_bids) ==
    LET best_yes_bid == BestBid(yes_bids)
        best_no_bid == BestBid(no_bids)
    IN IF yes_bids = <<>> /\ no_bids = <<>> THEN None
       ELSE IF best_yes_bid = None \/ best_no_bid = None
       THEN Some(MarketPricing(OrZero(best_yes_bid), OrZero(best_no_bid),
                               Depth(yes_bids), Depth(no_bids)))
       ELSE Some(calculate_spreads(calculate_implied_asks(
                     MarketPricing(best_yes_bid[1], best_no_bid[1],
                                   Depth(yes_bids), Depth(no_bids)))))

\* KalshiAdapter._extract_pricing on the bid arrays of an OrderbookRaw; None
\* when a side has no bids.
extract_pricing(yes_bids, no_bids) ==
    IF yes_bids = <<>> \/ no_bids = <<>> THEN None
    ELSE Some(calculate_spreads(calculate_implied_asks(
                  MarketPricing(yes_bids[Len(yes_bids)][1], no_bids[Len(no_bids)][1],
                                Depth(yes_bids), Depth(no_bids)))))

\* Prices, in cents, at which a side of a book holds bids.
BidPrices == {40, 45, 48, 52}

\* One side of a book: up to MaxLevels levels <<price, quantity>>, ascending by
\* price.
BidArrays ==
    {b \in UNION {[1..n -> BidPrices \X {100}] : n \in 0..MaxLevels} :
        \A i, j \in DOMAIN b : i < j => b[i][1] < b[j][1]}

PricingInit ==
    /\ QuietInit
    /\ exchange = DefaultExchange
    /\ call \in {PendingCall(op, [yes_bids |-> y, no_bids |-> n]) :
                     op \in {"extract_best_prices", "_extract_pricing"},
                     y \in BidArrays, n \in BidArrays}

\* extract_best_prices returns.
ExtractBestPrices ==
    /\ call.op = "extract_best_prices"
    /\ ~call.returned
    /\ call' = [call EXCEPT
                   !.returned = TRUE,
                   !.output = extract_best_prices(call.input.yes_bids,
                                                  call.input.no_bids)]
    /\ UNCHANGED <<execVars, scanVars, exchange>>

\* _extract_pricing returns.
ExtractPricing ==
    /\ call.op = "_extract_pricing"
    /\ ~call.returned
    /\ call' = [call EXCEPT
                   !.returned = TRUE,
                   !.output = extract_pricing(call.input.yes_bids,
                                              call.input.no_bids)]
    /\ UNCHANGED <<execVars, scanVars, exchange>>

PricingNext == ExtractBestPrices \/ ExtractPricing

\* extract_best_prices and _extract_pricing on every pair of bid arrays.
SpecPricing == PricingInit /\ [][PricingNext]_vars

\* ---- the scanner against any listing

\* The event whose listing varies.
ListedEvent == "KXPARDON-29"

MarketTickers ==
    <<"KXPARDON-29-A", "KXPARDON-29-B", "KXPARDON-29-C", "KXPARDON-29-D",
      "KXPARDON-29-E", "KXPARDON-29-F", "KXPARDON-29-G", "KXPARDON-29-H",
      "KXPARDON-29-I", "KXPARDON-29-J">>

\* MarketInfo of the i-th outcome market of the event.
MarketInfo(i, volume_24h) ==
    [ticker |-> MarketTickers[i], event_ticker |-> ListedEvent,
     volume_24h |-> volume_24h]

\* get_orderbook_with_pricing returns a book with bids on both sides: the best
\* YES bid and the implied YES ask, in cents.
Priced(bid, ask) ==
    BookResponse(FALSE, Some("orderbook"),
                 Some([best_yes_bid |-> Some(bid), best_yes_ask |-> Some(ask)]))

\* What get_orderbook_with_pricing can do for a market: raise, fail to fetch the
\* book, find a side without bids, find a NO bid of 100 (an implied YES ask of
\* 0), or return a priced book.
BookResponses ==
    { BookResponse(TRUE, None, None),
      BookResponse(FALSE, None, None),
      BookResponse(FALSE, Some("orderbook"), None),
      Priced(40, 0), Priced(38, 40), Priced(47, 49), Priced(51, 53),
      Priced(60, 62) }

\* volume_24h of each market of the event.
Volumes == {2000, 6000}

\* Four outcomes with best asks 20, 30, 25 and 15.
FourOutcomes ==
    Listing([i \in 1..4 |-> MarketInfo(i, 6000)],
            <<Priced(18, 20), Priced(28, 30), Priced(23, 25), Priced(13, 15)>>)

\* Ten outcomes of which six are priced, their asks adding up to 90.
SixOfTen ==
    Listing([i \in 1..10 |-> MarketInfo(i, 6000)],
            [i \in 1..10 |-> IF i <= 6 THEN Priced(13, 15)
                                       ELSE BookResponse(TRUE, None, None)])

\* The listings of the event: up to MaxMarkets markets of one volume, each with
\* any of the orderbook responses, and the two larger events above.
Listings ==
    UNION {{Listing([i \in 1..n |-> MarketInfo(i, v)], r) :
               r \in [1..n -> BookResponses], v \in Volumes} : n \in 0..MaxMarkets}
      \cup {FourOutcomes, SixOfTen}

MarketsInit ==
    /\ QuietInit
    /\ call = NoCall
    /\ exchange \in {[DefaultExchange EXCEPT ![ListedEvent] = l] : l \in Listings}

\* What the metadata request of a scan_top_volume is answered with: a failure,
\* or metadata flagged mutually exclusive.
ListedEventResponses ==
    {None} \cup {Some(md) : md \in {x \in EventMetadata :
                                        x.mutually_exclusive = Some(TRUE)}}

MarketsNext ==
    \/ \E response \in ListedEventResponses :
          ScanTopVolume(<<ListedEvent>>, <<response>>)
    \/ ScanEvents(<<ListedEvent>>)
    \/ GetSignals
    \/ GetSignalGroups
    \/ GetFilteredSignalGroups(default_min_coverage, default_min_contracts)

\* One StructuralArbScanner scanning an event of any listing.
SpecMarkets == MarketsInit /\ [][MarketsNext]_vars

\* ---- the scanner against failing requests

\* The listing of MarketsOf with the orderbook request of its first market
\* raising.
FirstBookFails(event_ticker) ==
    [DefaultExchange[event_ticker] EXCEPT !.responses[1] = BookResponse(TRUE, None, None)]

\* Exchanges on which, for each event, every request is answered, or the
\* markets request fails, or one orderbook request fails.
FailingExchanges ==
    [Events -> {"ok", "markets", "orderbook"}]

ExchangeOf(failures) ==
    [e \in Events |->
        CASE failures[e] = "ok" -> DefaultExchange[e]
          [] failures[e] = "markets" -> ListingFails
          [] failures[e] = "orderbook" -> FirstBookFails(e)]

TransportInit ==
    /\ QuietInit
    /\ call = NoCall
    /\ exchange \in {ExchangeOf(f) : f \in FailingExchanges}

TransportNext ==
    \/ \E event_tickers \in SeedLists :
          \E responses \in [DOMAIN event_tickers -> ListedEventResponses] :
              ScanTopVolume(event_tickers, responses)
    \/ \E event_tickers \in SeedLists : ScanEvents(event_tickers)
    \/ GetSignalGroups

\* One StructuralArbScanner on an exchange some of whose requests fail; a
\* failing metadata request is one of the answers of each scan.
SpecTransport == TransportInit /\ [][TransportNext]_vars

\* ------------------------------------------------------ scanner claims

\* The classification the classifier holds for a ticker passes the batch
\* filter's test at the threshold given: label MutuallyExclusive and confidence
\* at or above it.
TrustedAt(event_ticker, min_confidence) ==
    /\ event_ticker \in DOMAIN cache
    /\ cache[event_ticker].classification.event_type = "mutually_exclusive"
    /\ cache[event_ticker].classification.confidence >= min_confidence

\* C2: scan_top_volume puts an event in its safe set (and so fetches it and
\* hands its markets to the analyzer) only if the classification it got for the
\* event is MutuallyExclusive with confidence at least 0.8; a keyword-heuristic
\* MutuallyExclusive (0.5) is never analysed.  The classification a scan got is
\* the one in the cache when the scan returns.
C2_LowConfidenceExcluded ==
    strategy_call.op = "scan_top_volume" =>
        \A e \in strategy_call.events_in \cup strategy_call.events_out :
            TrustedAt(e, default_min_confidence)

\* C3: whatever calls were made on the scanner, no event listed in
\* excluded_events by the latest scan_top_volume has its markets handed to the
\* strategy, or is the event of an analysis, signal or signal group returned.
C3_ExcludedNeverAnalysed ==
    /\ strategy_call.events_in \cap DOMAIN excluded_events = {}
    /\ strategy_call.events_out \cap DOMAIN excluded_events = {}

\* C9: filter_mutually_exclusive returns exactly the tickers of its input, in
\* input order, whose classification is MutuallyExclusive with confidence at
\* least min_confidence.
C9_FilterExact ==
    classifier_call.op = "filter_mutually_exclusive" =>
        classifier_call.safe_events =
            SelectSeq(classifier_call.event_tickers,
                      LAMBDA e : TrustedAt(e, classifier_call.min_confidence))

\* A filter call at the default threshold that met a keyword-heuristic
\* MutuallyExclusive event, rejected it, and accepted another event.
C9_Witness ==
    /\ classifier_call.op = "filter_mutually_exclusive"
    /\ classifier_call.min_confidence = default_min_confidence
    /\ classifier_call.safe_events # <<>>
    /\ \E i \in DOMAIN classifier_call.event_tickers :
          LET e == classifier_call.event_tickers[i]
          IN /\ cache[e].classification.event_type = "mutually_exclusive"
             /\ cache[e].classification.confidence = 50
             /\ e \notin Range(classifier_call.safe_events)

\* The classification came from the mutually_exclusive flag of the metadata it
\* was derived from.
FromAuthoritativeFlag(c) ==
    /\ c.raw_metadata # None
    /\ c.raw_metadata[1].mutually_exclusive # None

\* The classification came from the collateral type of metadata without a flag.
FromCollateralType(c) ==
    /\ c.raw_metadata # None
    /\ c.raw_metadata[1].mutually_exclusive = None
    /\ c.raw_metadata[1].collateral_return_type = "MECNET"

\* C10: every classification classify returns (it is the one the cache holds for
\* the ticker) has confidence 1.0 exactly when it came from the authoritative
\* flag; collateral-type inference has 0.9, a keyword match 0.6 (disqualifying)
\* or 0.5 (qualifying), and no match is Unknown with confidence 0.
C10_ConfidenceLadder ==
    \A e \in DOMAIN cache :
        LET c == cache[e].classification
        IN /\ c.confidence = 100 <=> FromAuthoritativeFlag(c)
           /\ c.confidence = 90 <=> FromCollateralType(c)
           /\ ~FromAuthoritativeFlag(c) /\ ~FromCollateralType(c) =>
                \/ c.source.kind = "keyword_disqualify" /\ c.confidence = 60
                     /\ c.event_type = "independent"
                \/ c.source.kind = "keyword_qualify" /\ c.confidence = 50
                     /\ c.event_type = "mutually_exclusive"
                \/ c.source.kind = "no_match" /\ c.confidence = 0
                     /\ c.event_type = "unknown"

\* classify has just answered from the cache, which holds a flag-based
\* classification for one event and a collateral-type inference for the other.
C10_Witness ==
    /\ classifier_call.op = "classify"
    /\ \E e \in DOMAIN cache :
          /\ cache[e].classification.confidence = 100
          /\ FromAuthoritativeFlag(cache[e].classification)
    /\ \E e \in DOMAIN cache :
          /\ cache[e].classification.confidence = 90
          /\ cache[e].classification.source.kind = "collateral_type"

\* The keywords of the text _classify_by_keywords searches for a classification:
\* ticker, title and category.
TextOf(c) ==
    KeywordsIn(c.event_ticker) \cup OptKeywords(c.title) \cup OptKeywords(c.category)

HasKeywordOf(keywords, text) == \E i \in DOMAIN keywords : keywords[i] \in text

\* C11: resolution order of classify.  A mutually_exclusive flag in the metadata
\* decides the label with confidence 1.0 whatever the collateral type and the
\* keywords are, and a flag of false keeps the event out of the events a
\* scan_top_volume analyses; the collateral type decides only when the flag is
\* absent; keywords decide only when the metadata is missing or carries neither
\* signal, and then a disqualifying keyword in the text gives Independent even
\* if a qualifying keyword is there too.
C11_ResolutionOrder ==
    \A e \in DOMAIN cache :
        LET c == cache[e].classification
            md == c.raw_metadata
            flag == IF md = None THEN None ELSE md[1].mutually_exclusive
        IN /\ flag # None =>
                /\ c.source.kind = "api_metadata"
                /\ c.confidence = 100
                /\ c.event_type = IF flag[1] THEN "mutually_exclusive"
                                             ELSE "independent"
           /\ flag = Some(FALSE) /\ strategy_call.op = "scan_top_volume" =>
                e \notin strategy_call.events_in \cup strategy_call.events_out
           /\ c.source.kind = "collateral_type" =>
                /\ flag = None
                /\ md # None
                /\ HasMEC(md[1].collateral_return_type)
           /\ c.source.kind \in {"keyword_disqualify", "keyword_qualify", "no_match"} =>
                /\ flag = None
                /\ md # None => ~HasMEC(md[1].collateral_return_type)
                /\ HasKeywordOf(DISQUALIFYING_KEYWORDS, TextOf(c)) =>
                     c.event_type = "independent"

\* A scan_top_volume that excluded an event whose flag is false although its
\* collateral type is netted and its title holds a qualifying keyword, while the
\* other event, without metadata signal, has both kinds of keyword in its text.
C11_Witness ==
    /\ strategy_call.op = "scan_top_volume"
    /\ \E e \in DOMAIN cache \cap DOMAIN excluded_events :
          LET c == cache[e].classification
          IN /\ c.raw_metadata # None
             /\ c.raw_metadata[1].mutually_exclusive = Some(FALSE)
             /\ HasMEC(c.raw_metadata[1].collateral_return_type)
             /\ HasKeywordOf(QUALIFYING_KEYWORDS, TextOf(c))
             /\ c.event_type = "independent"
    /\ \E e \in DOMAIN cache :
          LET c == cache[e].classification
          IN /\ c.source.kind = "keyword_disqualify"
             /\ HasKeywordOf(QUALIFYING_KEYWORDS, TextOf(c))
             /\ HasKeywordOf(DISQUALIFYING_KEYWORDS, TextOf(c))

\* The markets of a listing whose orderbook request was answered with a pricing
\* that has a YES ask.
PricedBy(responses) ==
    {i \in DOMAIN responses :
        /\ ~responses[i].raised
        /\ responses[i].pricing # None
        /\ responses[i].pricing[1].best_yes_ask # None
        /\ responses[i].pricing[1].best_yes_ask[1] # 0}

\* C12: coverage accounting.  Every CompleteEventData the scanner holds counts
\* in total_markets every market the exchange lists for the event and keeps
\* each of them in its market list; a market whose orderbook request fails or
\* brings no usable pricing counts toward total_markets and not toward
\* markets_with_pricing, so markets_with_pricing <= total_markets and
\* completeness, their ratio, lies in [0, 1] and is 0 when there is no market.
C12_CoverageAccounting ==
    \A k \in DOMAIN complete_events :
        LET data == complete_events[k]
            infos == exchange[data.event_ticker].all_market_infos
            responses == exchange[data.event_ticker].responses
        IN /\ data.total_markets = Len(infos)
           /\ Len(data.markets) = Len(infos)
           /\ \A i \in DOMAIN infos : data.markets[i].market = infos[i]
           /\ data.markets_with_pricing = Cardinality(PricedBy(responses))
           /\ data.markets_with_pricing <= data.total_markets
           /\ completeness(data) \in 0..100
           /\ data.total_markets = 0 => completeness(data) = 0
           /\ data.total_markets > 0 =>
                /\ completeness(data) * data.total_markets
                      <= 100 * data.markets_with_pricing
                /\ 100 * data.markets_with_pricing
                      < (completeness(data) + 1) * data.total_markets

\* The scanner holds an event of three markets: one orderbook request raised,
\* one book had no usable pricing, one was priced.
C12_Witness ==
    \E k \in DOMAIN complete_events :
        LET data == complete_events[k]
            responses == exchange[data.event_ticker].responses
        IN /\ data.total_markets = 3
           /\ data.markets_with_pricing = 1
           /\ \E i \in DOMAIN responses : responses[i].raised
           /\ \E i \in DOMAIN responses :
                 ~responses[i].raised /\ i \notin PricedBy(responses)
           /\ completeness(data) = 33

\* The analysis of an event in last_analyses, the list the latest scan left;
\* a sequence of length 0 or 1.
LatestAnalysis(event_ticker) ==
    SelectSeq(last_analyses, LAMBDA a : a.event_ticker = event_ticker)

\* C13: the quality gate on the filtered path.  An analysis whose coverage is
\* below min_coverage or whose aggregate volume is below min_contracts is not
\* high quality, whatever its profit; and every SignalGroup returned by
\* get_filtered_signal_groups belongs to an event whose latest analysis shows
\* an opportunity with coverage and volume at or above the thresholds.
C13_QualityGate ==
    /\ \A i \in DOMAIN last_analyses :
          LET a == last_analyses[i]
          IN \/ a.market_count * 100 < default_min_coverage * a.total_markets
             \/ a.aggregate_volume < default_min_contracts
             => ~is_high_quality(a, default_min_coverage, default_min_contracts)
    /\ strategy_call.op = "get_filtered_signal_groups" =>
          \A i \in DOMAIN strategy_call.output :
              LET latest == LatestAnalysis(strategy_call.output[i].event_ticker)
              IN /\ Len(latest) = 1
                 /\ latest[1].buy_arb_profit > 0 \/ latest[1].sell_arb_profit > 0
                 /\ latest[1].market_count * 100
                       >= default_min_coverage * latest[1].total_markets
                 /\ latest[1].aggregate_volume >= default_min_contracts

\* get_filtered_signal_groups returned nothing for the event of ten markets,
\* six of them priced with asks adding up to 90, whose signal group
\* get_signal_groups would return.
C13_Witness ==
    /\ strategy_call.op = "get_filtered_signal_groups"
    /\ strategy_call.output = <<>>
    /\ generate_signal_groups(AllMarkets(complete_events)) # <<>>
    /\ Len(last_analyses) = 1
    /\ last_analyses[1].total_markets = 10
    /\ last_analyses[1].market_count = 6
    /\ last_analyses[1].sum_yes_asks = 90
    /\ last_analyses[1].buy_arb_profit > 0

\* The groups of one name among those a call returned.
GroupsNamed(groups, arb_type, event_ticker) ==
    SelectSeq(groups, LAMBDA g : g.group_name = <<arb_type, event_ticker>>)

\* One leg per market an analysis includes: Buy legs at the market's best ask,
\* Sell legs at its best bid, each of the default size.
OneLegPerMarket(a, side) ==
    [j \in DOMAIN a.markets |->
        [ticker |-> a.markets[j].market.ticker,
         side |-> side,
         price |-> IF side = "buy" THEN a.markets[j].pricing[1].best_yes_ask[1]
                                   ELSE a.markets[j].pricing[1].best_yes_bid[1],
         size |-> default_size,
         event_ticker |-> a.event_ticker]]

\* The groups get_filtered_signal_groups returned hold, for an analysis, exactly
\* one group of the given name, made of one leg per included market.
EmitsGroup(a, arb_type, side) ==
    LET named == GroupsNamed(strategy_call.output, arb_type, a.event_ticker)
    IN /\ Len(named) = 1
       /\ named[1].event_ticker = a.event_ticker
       /\ named[1].signals = OneLegPerMarket(a, side)

HighQuality(a) == is_high_quality(a, default_min_coverage, default_min_contracts)

\* C14 as stated: get_filtered_signal_groups returns, for each high-quality
\* analysis with has_buy_arb, one group BUY_ALL_<event> of one Buy leg per
\* included market at its best ask and of the default size, and for each with
\* has_sell_arb one group SELL_ALL_<event> of one Sell leg per market at its
\* best bid.
C14_Original ==
    strategy_call.op = "get_filtered_signal_groups" =>
        \A i \in DOMAIN last_analyses :
            LET a == last_analyses[i]
            IN /\ HighQuality(a) /\ has_buy_arb(a) => EmitsGroup(a, "BUY_ALL", "buy")
               /\ HighQuality(a) /\ has_sell_arb(a) => EmitsGroup(a, "SELL_ALL", "sell")

\* C14: get_filtered_signal_groups returns, for each high-quality analysis whose
\* sum of asks is positive and below buy_threshold (98), one group
\* BUY_ALL_<event> of one Buy leg per included market at its best ask and of the
\* default size, and for each whose sum of bids is above sell_threshold (102)
\* one group SELL_ALL_<event> of one Sell leg per market at its best bid; an
\* analysis with has_buy_arb whose asks add up to 98 or more, or with
\* has_sell_arb whose bids add up to 102 or less, gets no group of that name,
\* and neither does an analysis that is not high quality.
C14_SignalGeneration ==
    strategy_call.op = "get_filtered_signal_groups" =>
        \A i \in DOMAIN last_analyses :
            LET a == last_analyses[i]
                buys == GroupsNamed(strategy_call.output, "BUY_ALL", a.event_ticker)
                sells == GroupsNamed(strategy_call.output, "SELL_ALL", a.event_ticker)
            IN /\ HighQuality(a) /\ a.sum_yes_asks > 0
                    /\ a.sum_yes_asks < buy_threshold
                  => EmitsGroup(a, "BUY_ALL", "buy")
               /\ HighQuality(a) /\ a.sum_yes_bids > sell_threshold
                  => EmitsGroup(a, "SELL_ALL", "sell")
               /\ a.sum_yes_asks >= buy_threshold => buys = <<>>
               /\ a.sum_yes_bids <= sell_threshold => sells = <<>>
               /\ ~HighQuality(a) => buys = <<>> /\ sells = <<>>

\* The four outcomes with asks 20, 30, 25 and 15: profit 10, high quality, and
\* one group of four Buy legs returned.
C14_Witness ==
    /\ strategy_call.op = "get_filtered_signal_groups"
    /\ Len(last_analyses) = 1
    /\ last_analyses[1].sum_yes_asks = 90
    /\ last_analyses[1].buy_arb_profit = 10
    /\ HighQuality(last_analyses[1])
    /\ Len(strategy_call.output) = 1
    /\ strategy_call.output[1].group_name = <<"BUY_ALL", ListedEvent>>
    /\ [j \in 1..4 |-> strategy_call.output[1].signals[j].price] = <<20, 30, 25, 15>>
    /\ \A j \in 1..4 : strategy_call.output[1].signals[j].side = "buy"
    /\ Len(strategy_call.output[1].signals) = 4

\* C15 as stated: every analysis has buy_arb_profit = 100 - sum_of_asks and
\* sell_arb_profit = sum_of_bids - 100, has_buy_arb exactly when
\* 100 - sum_of_asks > 0 and has_sell_arb exactly when sum_of_bids - 100 > 0,
\* a sum of 0 included.
C15_Original ==
    \A i \in DOMAIN last_analyses :
        LET a == last_analyses[i]
        IN /\ a.buy_arb_profit = 100 - a.sum_yes_asks
           /\ a.sell_arb_profit = a.sum_yes_bids - 100
           /\ has_buy_arb(a) <=> 100 - a.sum_yes_asks > 0
           /\ has_sell_arb(a) <=> a.sum_yes_bids - 100 > 0

\* C15: every analysis has sell_arb_profit = sum_of_bids - 100, and
\* buy_arb_profit = 100 - sum_of_asks when some market contributed an ask
\* (sum_of_asks > 0) but -100 when none did; so has_sell_arb holds exactly when
\* sum_of_bids - 100 > 0, and has_buy_arb exactly when sum_of_asks > 0 and
\* 100 - sum_of_asks > 0.
C15_Profits ==
    \A i \in DOMAIN last_analyses :
        LET a == last_analyses[i]
        IN /\ a.sum_yes_asks > 0 => a.buy_arb_profit = 100 - a.sum_yes_asks
           /\ a.sum_yes_asks = 0 => a.buy_arb_profit = -100
           /\ a.sell_arb_profit = a.sum_yes_bids - 100
           /\ has_buy_arb(a) <=> a.sum_yes_asks > 0 /\ 100 - a.sum_yes_asks > 0
           /\ has_sell_arb(a) <=> a.sum_yes_bids - 100 > 0

\* An analysis of an event none of whose markets contributed a price, next to
\* nothing: sums of 0, a buy profit of -100 and no buy arbitrage.
C15_Witness ==
    \E i \in DOMAIN last_analyses :
        LET a == last_analyses[i]
        IN /\ a.total_markets >= min_markets
           /\ a.market_count = 0
           /\ a.sum_yes_asks = 0
           /\ a.sum_yes_bids = 0
           /\ a.buy_arb_profit = -100
           /\ ~has_buy_arb(a)

\* ------------------------------------------------------ execution claims

\* A leg's status becomes Cancelled in this step.
BecomesCancelled(i) ==
    /\ tasks[i].result.status # "cancelled"
    /\ tasks'[i].result.status = "cancelled"

\* C16: paper-trading mode.  No order operation of the adapter is ever called;
\* a leg is cancelled only by a step that finds the kill switch on; and a
\* validated basket none of whose legs was cancelled returns with every leg
\* Filled at its expected price and size with slippage 0, status Complete and
\* total slippage 0.
C16_PaperMode ==
    /\ [](paper_trade =>
            /\ \A i \in DOMAIN create_order_calls : create_order_calls[i] = 0
            /\ (pc = "returned" /\ tasks # <<>>
                   /\ \A i \in DOMAIN tasks : tasks[i].result.status # "cancelled")
                => /\ \A i \in DOMAIN result.order_results :
                        LET o == result.order_results[i]
                        IN /\ o.status = "filled"
                           /\ o.fill_price = Some(signals[i].price)
                           /\ o.fill_size = signals[i].size
                           /\ o.slippage = 0
                   /\ Len(result.order_results) = Len(signals)
                   /\ result.status = "complete"
                   /\ total_slippage(result) = 0)
    /\ [][paper_trade =>
            \A i \in DOMAIN tasks \cap DOMAIN tasks' :
                BecomesCancelled(i) => kill_switch]_vars

\* A paper basket of several legs has returned Complete with the kill switch
\* off and no order sent to the exchange.
C16_Witness ==
    /\ paper_trade
    /\ pc = "returned"
    /\ ~kill_switch
    /\ Len(result.order_results) >= 2
    /\ result.status = "complete"
    /\ \A i \in DOMAIN result.order_results :
          result.order_results[i].order_id = Some("PAPER")
    /\ \A i \in DOMAIN create_order_calls : create_order_calls[i] = 0

\* The status histories the per-leg state machine allows:
\* Pending -> Submitted -> {Filled | Rejected | Failed}, Pending -> Cancelled,
\* and their beginnings.
LegPaths ==
    {<<"pending">>, <<"pending", "submitted">>, <<"pending", "cancelled">>}
      \cup {<<"pending", "submitted", last>> : last \in {"filled", "rejected", "failed"}}

\* C18: every leg's OrderResult, in live and in paper mode, goes through
\* Pending -> Submitted -> {Filled | Rejected | Failed} or Pending -> Cancelled:
\* no leg is Filled, Rejected or Failed without having been Submitted, and a
\* terminal status is never left.
C18_LegStateMachine ==
    \A i \in DOMAIN tasks :
        /\ tasks[i].trail \in LegPaths
        /\ tasks[i].result.status = tasks[i].trail[Len(tasks[i].trail)]

\* The BasketResult changes status in this step.
BasketStatusChanges == result'.status # result.status

\* C19 as stated: every status change of a BasketResult is Pending -> Executing
\* or Executing -> {Complete | Partial | Failed | Cancelled}.
C19_Original ==
    [][BasketStatusChanges =>
          \/ result.status = "pending" /\ result'.status = "executing"
          \/ /\ result.status = "executing"
             /\ result'.status \in {"complete", "partial", "failed", "cancelled"}]_vars

\* C19: a BasketResult whose signal group fails validation goes from Pending
\* straight to Failed, with no leg; one whose group passes goes Pending ->
\* Executing -> {Complete | Partial | Failed}; a basket never changes status
\* after Complete, Partial or Failed.
C19_BasketStateMachine ==
    [][BasketStatusChanges =>
          \/ /\ result.status = "pending" /\ result'.status = "executing"
             /\ validate_signal_group(signals') = None
          \/ /\ result.status = "pending" /\ result'.status = "failed"
             /\ validate_signal_group(signals') # None
             /\ tasks' = <<>>
          \/ /\ result.status = "executing"
             /\ result'.status \in {"complete", "partial", "failed"}
             /\ tasks # <<>>]_vars

\* A call has returned Failed for a group that did not pass validation, the
\* basket never having been Executing, while the kill switch was off.
C19_Witness ==
    /\ pc = "returned"
    /\ result.status = "failed"
    /\ result.order_results = <<>>
    /\ tasks = <<>>
    /\ validate_signal_group(signals) # None
    /\ ~kill_switch

\* C20: a live leg that is submitted and waiting for its fill when the kill
\* switch is on stops at its next poll iteration: its next step ends the leg,
\* and does not end it Filled.
C20_KillStopsPolling ==
    [][\A i \in DOMAIN tasks \cap DOMAIN tasks' :
          (/\ ~paper_trade
           /\ kill_switch
           /\ tasks[i].pc = "sleeping"
           /\ tasks'[i] # tasks[i])
          => /\ tasks'[i].pc = "done"
             /\ tasks'[i].result.status # "filled"]_vars

\* A leg task that has not finished: it has yet to start, or it is suspended.
InFlight(i) == tasks[i].pc # "done"

\* C21: execute_basket gives the basket its terminal status and returns only
\* after every leg task has finished.  While some leg is in flight the call has
\* not returned and the basket is Executing (never Complete), without any
\* OrderResult; in the result returned for a validated group there is one
\* OrderResult per signal, none of them Pending or Submitted.
C21_GatherBarrier ==
    /\ (\E i \in DOMAIN tasks : InFlight(i)) =>
          /\ pc = "gathering"
          /\ result.status = "executing"
          /\ result.order_results = <<>>
    /\ (pc = "returned" /\ tasks # <<>>) =>
          /\ \A i \in DOMAIN tasks : ~InFlight(i)
          /\ result.status \in {"complete", "partial", "failed"}
          /\ Len(result.order_results) = Len(signals)
          /\ \A i \in DOMAIN result.order_results :
                result.order_results[i].status \notin {"pending", "submitted"}

\* A live basket has returned Partial after waiting for its slowest leg: one
\* leg filled, another was polled until its timeout.
C21_Witness ==
    /\ pc = "returned"
    /\ ~paper_trade
    /\ result.status = "partial"
    /\ Len(result.order_results) = Len(signals)
    /\ \E i, j \in DOMAIN result.order_results :
          /\ result.order_results[i].status = "filled"
          /\ result.order_results[j].status = "failed"
          /\ result.order_results[j].order_id # None
          /\ result.order_results[j].error_message = TimeoutMessage

\* The OrderResult carries the ticker, side, expected price and expected size
\* of the signal.
SameLeg(o, signal) ==
    /\ o.ticker = signal.ticker
    /\ o.side = signal.side
    /\ o.expected_price = signal.price
    /\ o.expected_size = signal.size

\* C22: results are attributed to legs by position.  At every moment the
\* OrderResult of leg task i carries ticker, side, expected price and expected
\* size of signals[i]; order_results[i] of the returned BasketResult is the
\* OrderResult of leg task i, whatever the order in which the legs finished;
\* and a step that writes one leg's OrderResult writes no other leg's.
C22_PositionalResults ==
    /\ [](\A i \in DOMAIN tasks : SameLeg(tasks[i].result, signals[i]))
    /\ []((pc = "returned" /\ tasks # <<>>) =>
            /\ DOMAIN result.order_results = DOMAIN signals
            /\ \A i \in DOMAIN signals :
                  /\ SameLeg(result.order_results[i], signals[i])
                  /\ result.order_results[i] = tasks[i].result)
    /\ [][\A i \in DOMAIN tasks \cap DOMAIN tasks' :
            tasks'[i].result # tasks[i].result
              => \A j \in DOMAIN tasks : j # i => tasks'[j].result = tasks[j].result]_vars

\* The legs of a three-leg basket finish in reverse: the third has Filled and
\* the second Failed while the first, on another market, is still waiting.
C22_Witness ==
    /\ pc = "gathering"
    /\ Len(tasks) = 3
    /\ signals[1].ticker # signals[3].ticker
    /\ InFlight(1)
    /\ tasks[1].result.status = "submitted"
    /\ tasks[2].pc = "done" /\ tasks[2].result.status = "failed"
    /\ tasks[3].pc = "done" /\ tasks[3].result.status = "filled"
    /\ SameLeg(tasks[3].result, signals[3])

\* The step appends one entry to execution_history and leaves the entries
\* before it as they were.
AppendsToHistory(r) == execution_history' = Append(execution_history, r)

\* The call followed returns in this step after running its legs.
ReturnsAfterLegs == pc = "gathering" /\ pc' = "returned"

\* The call followed is rejected by validation in this step.
ReturnsRejected == pc = "idle" /\ pc' = "returned" /\ tasks' = <<>>

\* C23: execution_history is append-only and written once per completed
\* basket.  A call that ran its legs appends, in the step that returns and with
\* every leg finished, exactly the BasketResult it returns, in its final
\* status; a call rejected by validation appends nothing; kill and
\* reset_kill_switch leave the list alone; and any other change of the list is
\* the append of another basket's result, so that no entry is ever removed,
\* replaced or moved.
C23_HistoryAppendOnly ==
    [][/\ ReturnsAfterLegs =>
            /\ AppendsToHistory(result')
            /\ result'.status \in {"complete", "partial", "failed"}
            /\ \A i \in DOMAIN tasks : tasks[i].pc = "done"
       /\ ReturnsRejected => execution_history' = execution_history
       /\ kill_switch' # kill_switch => execution_history' = execution_history
       /\ (execution_history' # execution_history /\ ~ReturnsAfterLegs) =>
            /\ AppendsToHistory(ConcurrentResult)
            /\ UNCHANGED <<pc, result, tasks>>]_vars

\* The call followed has returned on a manager with two earlier entries, the
\* kill switch was thrown and the other basket finished along the way: the
\* history holds the two old entries, then the other basket's result and the
\* result returned, one of each.
C23_Witness ==
    /\ pc = "returned"
    /\ tasks # <<>>
    /\ kill_switch
    /\ Len(execution_history) = 4
    /\ <<execution_history[1], execution_history[2]>> \in EarlierHistories
    /\ execution_history[3] = ConcurrentResult
    /\ execution_history[4] = result
    /\ result.status = "partial"

\* ---------------------------------------------------- classifier claims

\* The step is a classify call.
ClassifyStep == call'.op = "classify" /\ now' = now

\* The ticker has a cached entry younger than cache_ttl.
Fresh(event_ticker) ==
    /\ event_ticker \in DOMAIN cache
    /\ now - cache[event_ticker].timestamp < CacheTtl

\* C24: the classification cache and its TTL.  A classify call made with the
\* cache enabled while the ticker's entry is younger than cache_ttl returns the
\* cached classification, fetches nothing and leaves the cache as it is; a
\* call made when the entry's age has reached cache_ttl, or when there is no
\* entry, or with use_cache disabled, fetches the metadata, derives the
\* classification from that answer, returns it and stores it with the time of
\* the call; the entries of other tickers are unchanged.
C24_CacheTtl ==
    [][ClassifyStep =>
         LET e == call'.input.event_ticker
             fetch == call'.output.fetch
             returned == call'.output.classification
         IN /\ (call'.input.use_cache /\ Fresh(e)) =>
                 /\ fetch = None
                 /\ returned = cache[e].classification
                 /\ cache' = cache
            /\ ~(call'.input.use_cache /\ Fresh(e)) =>
                 /\ fetch # None
                 /\ DOMAIN cache' = DOMAIN cache \cup {e}
                 /\ cache'[e] = [classification |-> FreshClassification(e, fetch[1]),
                                 timestamp |-> now]
                 /\ returned = cache'[e].classification
                 /\ \A o \in DOMAIN cache \ {e} : cache'[o] = cache[o]]_vars

\* The last call, a classify with the cache enabled, was answered without a
\* fetch from an entry stored at time 0, although the entry of another ticker
\* was stored at time 1: the call came when its entry was one tick old.
C24_Witness ==
    /\ call.op = "classify"
    /\ call.input.use_cache
    /\ call.output.fetch = None
    /\ LET e == call.input.event_ticker
       IN /\ cache[e].timestamp = 0
          /\ call.output.classification = cache[e].classification
          /\ \E o \in DOMAIN cache : o # e /\ cache[o].timestamp = 1

\* The classification was derived without metadata: the fetch had failed.
DerivedWithoutMetadata(c) ==
    /\ c.raw_metadata = None
    /\ c.source.kind \in {"keyword_disqualify", "keyword_qualify", "no_match"}

\* C30: a fallback classification is cached like an authoritative one.  A
\* classify call whose metadata fetch fails stores the keyword-heuristic (or
\* Unknown) result with the time of the call; while that entry is younger than
\* cache_ttl every classify call for the ticker with the cache enabled returns
\* it without fetching, so whatever metadata the exchange would serve by then
\* is not read; a call that finds such an entry returns anything else only
\* when the entry's age has reached cache_ttl or use_cache is disabled.
C30_FallbackCached ==
    [][ClassifyStep =>
         LET e == call'.input.event_ticker
             fetch == call'.output.fetch
             returned == call'.output.classification
         IN /\ fetch = Some(None) =>
                 /\ DerivedWithoutMetadata(returned)
                 /\ returned = classify_by_keywords(e, None, None)
                 /\ cache'[e] = [classification |-> returned, timestamp |-> now]
            /\ (e \in DOMAIN cache /\ DerivedWithoutMetadata(cache[e].classification)) =>
                 /\ (call'.input.use_cache /\ Fresh(e)) =>
                       /\ fetch = None
                       /\ returned = cache[e].classification
                       /\ cache' = cache
                 /\ returned # cache[e].classification =>
                       /\ fetch # None
                       /\ ~call'.input.use_cache \/ now - cache[e].timestamp >= CacheTtl]_vars

\* The last call, a classify with the cache enabled, returned without a fetch
\* the keyword-heuristic entry stored at time 0 after a failed fetch, at a
\* moment when that entry was at least one tick old: another ticker's entry,
\* derived from the authoritative flag, was stored at time 1.
C30_Witness ==
    /\ call.op = "classify"
    /\ call.input.use_cache
    /\ call.output.fetch = None
    /\ DerivedWithoutMetadata(call.output.classification)
    /\ call.output.classification.source.kind = "keyword_disqualify"
    /\ cache[call.input.event_ticker].timestamp = 0
    /\ \E o \in DOMAIN cache :
          /\ o # call.input.event_ticker
          /\ cache[o].timestamp = 1
          /\ FromAuthoritativeFlag(cache[o].classification)

\* ------------------------------------------------------- scan-run claims

\* The events the latest scan run fetched.  Every event of the exchange lists
\* between min_markets and max_markets markets, so each fetched event has an
\* analysis in last_analyses.
FetchedByLatestRun == EventTickers(last_analyses)

\* C25: complete-event data is per scan run.  After a scan run the scanner's
\* complete_events holds only events that run fetched, and get_signals and
\* get_signal_groups hand to the strategy only markets of events fetched by the
\* latest run, never those of an event seen only in an earlier run or excluded
\* by the latest one.
C25_PerRunData ==
    /\ strategy_call.op # "none" => EventTickers(complete_events) \subseteq FetchedByLatestRun
    /\ strategy_call.op \in {"get_signals", "get_signal_groups"} =>
          /\ strategy_call.events_in \subseteq FetchedByLatestRun
          /\ strategy_call.events_in \cap DOMAIN excluded_events = {}

\* C26: a transport failure never aborts the surrounding batch.  Whatever
\* request fails for one event or market during scan_top_volume (the markets
\* list, the metadata, an orderbook), the scan completes and returns an
\* analysis for every safe event whose own markets list was fetched.
C26_TransportIsolation ==
    strategy_call.op = "scan_top_volume" =>
        /\ ~strategy_call.raised
        /\ \A e \in strategy_call.safe_events :
              ~exchange[e].raised => e \in strategy_call.events_out

\* ------------------------------------------------------ pricing claims

\* The implied-ask rule holds in a pricing: both asks are there, each adds up to
\* 100 with the opposite bid, and the YES spread is YES ask - YES bid.
ImpliedAskRule(p) ==
    /\ p.best_yes_ask # None
    /\ p.best_no_ask # None
    /\ p.best_yes_ask[1] + p.best_no_bid = 100
    /\ p.best_no_ask[1] + p.best_yes_bid = 100
    /\ p.yes_spread = Some(p.best_yes_ask[1] - p.best_yes_bid)

\* C17 as stated: for any ascending bid arrays, the best bid of each side is the
\* price of the side's last level, and the pricing returned satisfies
\* yes_ask + no_bid = 100, no_ask + yes_bid = 100 and
\* yes_spread = yes_ask - yes_bid.
C17_Original ==
    call.op = "extract_best_prices" /\ call.returned /\ call.output # None =>
        LET p == call.output[1]
            yes_bids == call.input.yes_bids
            no_bids == call.input.no_bids
        IN /\ yes_bids # <<>> => p.best_yes_bid = yes_bids[Len(yes_bids)][1]
           /\ no_bids # <<>> => p.best_no_bid = no_bids[Len(no_bids)][1]
           /\ ImpliedAskRule(p)

\* C17: for ascending bid arrays, the best bid of each side that has bids is the
\* price of the side's last level; when both sides have bids the pricing
\* satisfies yes_ask + no_bid = 100, no_ask + yes_bid = 100 and
\* yes_spread = yes_ask - yes_bid (YES bids ending at 45 and NO bids ending at
\* 52 give asks 48 and 55 and a YES spread of 3); when only one side has bids
\* the pricing carries no ask and no spread, and without any bid there is no
\* pricing.
C17_ImpliedAsk ==
    call.op = "extract_best_prices" /\ call.returned =>
        LET yes_bids == call.input.yes_bids
            no_bids == call.input.no_bids
        IN /\ call.output = None <=> yes_bids = <<>> /\ no_bids = <<>>
           /\ call.output # None =>
                LET p == call.output[1]
                IN /\ yes_bids # <<>> => p.best_yes_bid = yes_bids[Len(yes_bids)][1]
                   /\ no_bids # <<>> => p.best_no_bid = no_bids[Len(no_bids)][1]
                   /\ yes_bids # <<>> /\ no_bids # <<>> => ImpliedAskRule(p)
                   /\ yes_bids = <<>> \/ no_bids = <<>> =>
                        /\ p.best_yes_ask = None /\ p.best_no_ask = None
                        /\ p.yes_spread = None /\ p.no_spread = None
                   /\ (p.best_yes_bid = 45 /\ p.best_no_bid = 52) =>
                        /\ p.best_yes_ask = Some(48)
                        /\ p.best_no_ask = Some(55)
                        /\ p.yes_spread = Some(3)

\* YES bids of two levels ending at 45 and NO bids of two levels ending at 52
\* were priced: asks 48 and 55, YES spread 3.
C17_Witness ==
    /\ call.op = "extract_best_prices"
    /\ call.returned
    /\ Len(call.input.yes_bids) = 2
    /\ Len(call.input.no_bids) = 2
    /\ call.output # None
    /\ call.output[1].best_yes_bid = 45
    /\ call.output[1].best_no_bid = 52
    /\ call.output[1].best_yes_ask = Some(48)
    /\ call.output[1].best_no_ask = Some(55)
    /\ call.output[1].yes_spread = Some(3)

\* ------------------------------------------------------ kill-switch claims

\* Leg i starts in this step, with the kill switch on.
StartsUnderKill(i) ==
    kill_switch /\ tasks[i].pc = "ready" /\ tasks'[i].pc # "ready"

\* Every leg of the basket was cancelled.
AllLegsCancelled ==
    tasks # <<>> /\ \A i \in DOMAIN tasks : tasks[i].result.status = "cancelled"

\* C28: the execution manager never gives a basket the status Cancelled.  A
\* leg that starts while the kill switch is on ends Cancelled at once, without
\* an order; a validated basket all of whose legs were cancelled is returned
\* Failed, with no leg Filled, and is the last entry of execution_history; a
\* basket whose kill switch went on after some legs were submitted can end
\* Partial, with Filled and Cancelled legs.
C28_KillDuringBasket ==
    /\ [](/\ result.status # "cancelled"
          /\ \A k \in DOMAIN execution_history :
                execution_history[k].status # "cancelled")
    /\ []((pc = "returned" /\ AllLegsCancelled) =>
             /\ result.status = "failed"
             /\ orders_filled(result) = 0
             /\ Len(result.order_results) = Len(signals)
             /\ execution_history # <<>>
             /\ execution_history[Len(execution_history)] = result)
    /\ [][\A i \in DOMAIN tasks \cap DOMAIN tasks' :
             StartsUnderKill(i) =>
                /\ tasks'[i].pc = "done"
                /\ tasks'[i].result.status = "cancelled"
                /\ create_order_calls'[i] = 0]_vars

\* A live basket has returned Partial with the kill switch on: its first leg
\* was submitted and filled, a later leg started after the kill and was
\* cancelled.
C28_Witness ==
    /\ pc = "returned"
    /\ ~paper_trade
    /\ kill_switch
    /\ result.status = "partial"
    /\ Len(tasks) >= 2
    /\ tasks[1].result.status = "filled"
    /\ tasks[Len(tasks)].result.status = "cancelled"
    /\ tasks[Len(tasks)].trail = <<"pending", "cancelled">>
    /\ execution_history = <<result>>

\* ------------------------------------------------------ polling claims

\* Leg i made an iteration of its _wait_for_fill in this step.
Polled(i) ==
    /\ call' # call
    /\ call'.op = "_wait_for_fill"
    /\ call'.input.leg = i

\* The exchange answered this step's poll of leg i with `cancelled` or
\* `rejected`.
Refused(i) ==
    Polled(i) /\ call'.output \in {Some("cancelled"), Some("rejected")}

\* Leg i is marked Filled in this step.
BecomesFilled(i) ==
    tasks[i].result.status # "filled" /\ tasks'[i].result.status = "filled"

\* No OrderResult, of a leg in flight, of the result returned or of the
\* history, has or has had the status Rejected or Partial.
NeverRejectedOrPartial ==
    /\ \A i \in DOMAIN tasks :
          Range(tasks[i].trail) \cap {"rejected", "partial"} = {}
    /\ \A i \in DOMAIN result.order_results :
          result.order_results[i].status \notin {"rejected", "partial"}
    /\ \A k \in DOMAIN execution_history :
          \A i \in DOMAIN execution_history[k].order_results :
              execution_history[k].order_results[i].status \notin {"rejected", "partial"}

\* The poll of leg i that the exchange refused ends the leg in this step,
\* before the timeout, Failed with the message of a timeout.
RefusalEndsLeg(i) ==
    Refused(i) =>
        /\ ~TimedOut(call'.input.elapsed)
        /\ tasks'[i].pc = "done"
        /\ tasks'[i].result.status = "failed"
        /\ tasks'[i].result.error_message = Some("Order did not fill within timeout")

\* C29 as stated: no leg ever ends Rejected or Partial; an order the exchange
\* reports rejected or cancelled stops the polling at once and the leg ends
\* Failed with the message of a timeout; a leg is marked Filled only when a
\* poll returned status filled.
C29_Original ==
    /\ []NeverRejectedOrPartial
    /\ [][\A i \in DOMAIN tasks \cap DOMAIN tasks' :
             /\ RefusalEndsLeg(i)
             /\ BecomesFilled(i) => Polled(i) /\ call'.output = Some("filled")]_vars

\* C29: no leg ever ends Rejected or Partial; in live mode an order the
\* exchange reports rejected or cancelled stops the polling at once, before
\* the timeout, and the leg ends Failed with the message of a timeout; a live
\* leg is marked Filled only when a poll returned status filled, and a paper
\* leg is marked Filled without any poll.
C29_PollOutcomes ==
    /\ []NeverRejectedOrPartial
    /\ [][\A i \in DOMAIN tasks \cap DOMAIN tasks' :
             /\ RefusalEndsLeg(i)
             /\ BecomesFilled(i) =>
                   IF paper_trade
                   THEN call' = call /\ tasks'[i].result.order_id = Some("PAPER")
                   ELSE Polled(i) /\ call'.output = Some("filled")]_vars

\* The second poll of a live leg, before the timeout, was answered `rejected`:
\* the leg is Failed with the message of a timeout.
C29_Witness ==
    /\ ~paper_trade
    /\ call.op = "_wait_for_fill"
    /\ call.output = Some("rejected")
    /\ call.input.elapsed = 1
    /\ tasks[call.input.leg].pc = "done"
    /\ tasks[call.input.leg].trail = <<"pending", "submitted", "failed">>
    /\ tasks[call.input.leg].result.error_message
          = Some("Order did not fill within timeout")

\* ------------------------------------------------------ missing-data claims

\* A price extraction has returned.
PriceExtractionReturned ==
    call.op \in {"extract_best_prices", "_extract_pricing"} /\ call.returned

\* C27: missing data is never treated as zero.  Price extraction yields
\* "insufficient data" only when both bid sides are empty, and for a book with
\* bids on one side only it yields a pricing record in which the best bid of
\* the side without bids is not 0.
C27_MissingNotZero ==
    PriceExtractionReturned =>
        LET yes_bids == call.input.yes_bids
            no_bids == call.input.no_bids
        IN /\ call.output = None <=> yes_bids = <<>> /\ no_bids = <<>>
           /\ call.output # None =>
                /\ yes_bids = <<>> => call.output[1].best_yes_bid # 0
                /\ no_bids = <<>> => call.output[1].best_no_bid # 0

====
